---- MODULE Spec2Model ----
(***************************************************************************)
(* State-machine model of the LWA quick-processing orchestration code:     *)
(*   - pipeline_quick_proc_img.py  (main, run_pipeline and its stages)     *)
(*   - dev_src/selfcal_pipeline.py (SelfCalPipeline and its main)          *)
(*   - dev_src/run_dp3_flag_avg.py (standalone flag/average stage)         *)
(*   - script/subtract_sources.py  (standalone source subtraction stage)   *)
(*   - phaseshift_to_sun.py and the mount derivation of the DP3 stages     *)
(*   - dev_src/run_gaincal.py      (standalone gain calibration)           *)
(*   - realtime_quick.py           (get_newest_file and the polling loop)  *)
(*   - dev_src/uvh5_to_ms.py, dev_src/ms_preproc_uvh5.py (converters)      *)
(* One program runs per behaviour (variable prog).  Every external tool    *)
(* call goes through the phases call -> written -> running -> left, so     *)
(* that transient files, failures and cancellation can be observed.        *)
(***************************************************************************)
EXTENDS Integers, Sequences, FiniteSets, TLC

VARIABLES
    prog,        \* which entry point runs in this behaviour
    input,       \* command line and filesystem preconditions of the run
    pc,          \* label of the stage the program is at
    phase,       \* position inside the current stage function
    status,      \* "running", "exit0", "exit1" (any nonzero exit), "killed"
    failedAt,    \* label of the stage whose failure ended the run, or "none"
    fs,          \* files existing on disk
    log,         \* external tool launches, in order
    reports,     \* run reports written (pipeline_report.json), in order
    selfcal_iterations,  \* SelfCalPipeline.selfcal_iterations
    iteration,   \* loop variable of run_selfcal_pipeline
    current_ms,  \* current_ms of run_selfcal_pipeline
    printed,     \* messages the stage functions print about their outcome, in order
    raised,      \* exception the tool runner raised at the last tool call, or "none"
    paths,       \* host paths given to a stage function that derives its mount
    mount,       \* mount root and translated paths that stage function derived
    returned,    \* value the function under study returned, or the exception it raised
    rendered,    \* parset texts rendered so far, with their arguments
    conc,        \* two invocations of a stage function sharing a working directory
    rt           \* state of the realtime_quick loop

vars == <<prog, input, pc, phase, status, failedAt, fs, log, reports,
          selfcal_iterations, iteration, current_ms, printed, raised, paths, mount,
          returned, rendered, conc, rt>>

scVars == <<selfcal_iterations, iteration, current_ms>>

outVars == <<printed, raised>>

extVars == <<returned, rendered, conc, rt>>

mntVars == <<paths, mount, extVars>>

\* ------------------------------------------------------------------ bounds
\* largest configured / overriding number of self-calibration rounds
MaxRounds == 3

\* largest len(sys.argv) tried at the entry points
MaxArgc == 4

\* ------------------------------------------------------------------ files
File(dir, base, k) == [dir |-> dir, base |-> base, k |-> k]

None == -1

NoFile == File("", "", 0)

Outcomes == {"ok", "nonzero"}

\* nothing returned (None, or the call has not returned)
NoReturn == [kind |-> "none", value |-> << >>]

Signals == {"SIGINT", "SIGTERM"}

\* One subprocess.run call (or library call) of a stage, as recorded in log.
\* exit: "pending" while the tool runs, then "ok", "nonzero", "sigint";
\* "oserror" when the tool could not be started; "raise" for a library call.
Entry(stage, tool, k, reads, writes, parset, exit) ==
    [stage |-> stage, tool |-> tool, k |-> k, reads |-> reads, writes |-> writes,
     parset |-> parset, exit |-> exit]

\* log with the exit of the running tool filled in.
SetExit(o) == [log EXCEPT ![Len(log)].exit = o]

\* What a tool runner raises for outcome o of the tool: subprocess.run raises
\* CalledProcessError for a nonzero exit only when called with check=True,
\* OSError when the binary cannot be started, KeyboardInterrupt on SIGINT.
Raised(check, o) ==
    CASE o = "ok"      -> "none"
      [] o = "nonzero" -> IF check THEN "CalledProcessError" ELSE "none"
      [] o = "oserror" -> "OSError"
      [] o = "sigint"  -> "KeyboardInterrupt"
      [] OTHER         -> "Exception"

\* ======================================================================
\* pipeline_quick_proc_img.py
\* ======================================================================
DEBUG == TRUE

raw_ms == File("data", "raw.ms", 0)

gaintable == File("caltables", "gaintable.bcal", 0)

flagged_avg_ms == File("data", "raw_flagged_avg.ms", 0)

solution_file == File("data", "solution.h5", 0)

final_ms == File("data", "raw_proc_final.ms", 0)

sources_txt == File("data", "proc_image_source-sources.txt", 0)

masked_sources_txt == File("data", "proc_image_source_masked-sources.txt", 0)

subtracted_ms == File("data", "proc_image_source_masked_subtracted.ms", 0)

shifted_ms == File("data", "proc_image_source_sun_shifted.ms", 0)

Image(prefix) == File("data", prefix, 0)

\* Mutant of PipeStages: the gain calibration is called before the imaging
\* that produces its model.
PipeStagesSwapped ==
    <<"casa_applycal", "dp3_flag_avg", "gaincal", "selfcal_image", "applycal",
      "source_image", "mask_sources", "subtract", "phaseshift", "final_image",
      "debug_image", "plots">>

\* The calls of run_pipeline, in program order.
PipeStages ==
    <<"casa_applycal", "dp3_flag_avg", "selfcal_image", "gaincal", "applycal",
      "source_image", "mask_sources", "subtract", "phaseshift", "final_image">>
    \o (IF DEBUG THEN <<"debug_image">> ELSE << >>)
    \o <<"plots">>

\* The function each call of run_pipeline enters.
PipeFn(stage) ==
    CASE stage = "casa_applycal" -> "run_casa_applycal"
      [] stage = "dp3_flag_avg"  -> "run_dp3_flag_avg"
      [] stage = "selfcal_image" -> "run_wsclean_imaging"
      [] stage = "gaincal"       -> "run_gaincal"
      [] stage = "applycal"      -> "run_applycal_dp3"
      [] stage = "source_image"  -> "run_wsclean_imaging"
      [] stage = "mask_sources"  -> "mask_far_Sun_sources"
      [] stage = "subtract"      -> "run_dp3_subtract"
      [] stage = "phaseshift"    -> "phaseshift_to_sun"
      [] stage = "final_image"   -> "run_wsclean_imaging"
      [] stage = "debug_image"   -> "run_wsclean_imaging"
      [] OTHER                   -> "plot_fits"

\* Functions that launch an external tool through subprocess.run.
PipeToolFns ==
    {"run_casa_applycal", "run_dp3_flag_avg", "run_wsclean_imaging", "run_gaincal",
     "run_applycal_dp3", "run_dp3_subtract", "phaseshift_to_sun"}

\* The binary each stage function launches.
PipeTool(fn) ==
    CASE fn = "run_casa_applycal"   -> "python3"
      [] fn = "run_wsclean_imaging" -> "wsclean"
      [] OTHER                      -> "DP3"

\* Transient script or parset a stage function writes before launching its tool.
PipeTransient(fn) ==
    CASE fn = "run_casa_applycal" -> {File("cwd", "casa_applycal.py", 0)}
      [] fn = "run_dp3_flag_avg"  -> {File("data", "dp3_flag_avg.parset", 0)}
      [] fn = "run_gaincal"       -> {File("data", "gaincal.parset", 0)}
      [] fn = "run_applycal_dp3"  -> {File("data", "applycal.parset", 0)}
      [] fn = "run_dp3_subtract"  -> {File("data", "subtract.parset", 0)}
      [] fn = "phaseshift_to_sun" -> {File("data", "phaseshift_to_sun.parset", 0)}
      [] OTHER                    -> {}

\* Mutant of PipeReads: run_dp3_subtract is called with its input and output
\* arguments exchanged.
PipeReadsSwappedArgs(stage) ==
    CASE stage = "casa_applycal" -> {raw_ms, gaintable}
      [] stage = "dp3_flag_avg"  -> {raw_ms}
      [] stage = "selfcal_image" -> {flagged_avg_ms}
      [] stage = "gaincal"       -> {flagged_avg_ms}
      [] stage = "applycal"      -> {flagged_avg_ms, solution_file}
      [] stage = "source_image"  -> {final_ms}
      [] stage = "mask_sources"  -> {final_ms, sources_txt}
      [] stage = "subtract"      -> {subtracted_ms, masked_sources_txt}
      [] stage = "phaseshift"    -> {subtracted_ms}
      [] stage = "final_image"   -> {shifted_ms}
      [] stage = "debug_image"   -> {subtracted_ms}
      [] OTHER                   -> {Image("proc_image-image.fits"),
                                     Image("proc_image_source-image.fits"),
                                     Image("proc_image_source_sun_shifted-image.fits")}

\* Measurement set (or source list) each call of run_pipeline is given as input.
PipeReads(stage) ==
    CASE stage = "casa_applycal" -> {raw_ms, gaintable}
      [] stage = "dp3_flag_avg"  -> {raw_ms}
      [] stage = "selfcal_image" -> {flagged_avg_ms}
      [] stage = "gaincal"       -> {flagged_avg_ms}
      [] stage = "applycal"      -> {flagged_avg_ms, solution_file}
      [] stage = "source_image"  -> {final_ms}
      [] stage = "mask_sources"  -> {final_ms, sources_txt}
      [] stage = "subtract"      -> {final_ms, masked_sources_txt}
      [] stage = "phaseshift"    -> {subtracted_ms}
      [] stage = "final_image"   -> {shifted_ms}
      [] stage = "debug_image"   -> {subtracted_ms}
      [] OTHER                   -> {Image("proc_image-image.fits"),
                                     Image("proc_image_source-image.fits"),
                                     Image("proc_image_source_sun_shifted-image.fits")}

\* Mutant of PipeWrites: phaseshift_to_sun is given final_ms as its output.
PipeWritesOverFinal(stage) ==
    CASE stage = "casa_applycal" -> {raw_ms}
      [] stage = "dp3_flag_avg"  -> {flagged_avg_ms}
      [] stage = "selfcal_image" -> {flagged_avg_ms, Image("proc_image-image.fits")}
      [] stage = "gaincal"       -> {flagged_avg_ms, solution_file}
      [] stage = "applycal"      -> {final_ms}
      [] stage = "source_image"  -> {final_ms, sources_txt,
                                     Image("proc_image_source-image.fits")}
      [] stage = "mask_sources"  -> {masked_sources_txt}
      [] stage = "subtract"      -> {subtracted_ms}
      [] stage = "phaseshift"    -> {final_ms}
      [] stage = "final_image"   -> {shifted_ms,
                                     Image("proc_image_source_sun_shifted-image.fits")}
      [] stage = "debug_image"   -> {subtracted_ms,
                                     Image("proc_image_source_masked_subtracted-image.fits")}
      [] OTHER                   -> {}

\* Paths each call of run_pipeline writes when it succeeds.
PipeWrites(stage) ==
    CASE stage = "casa_applycal" -> {raw_ms}
      [] stage = "dp3_flag_avg"  -> {flagged_avg_ms}
      [] stage = "selfcal_image" -> {flagged_avg_ms, Image("proc_image-image.fits")}
      [] stage = "gaincal"       -> {flagged_avg_ms, solution_file}
      [] stage = "applycal"      -> {final_ms}
      [] stage = "source_image"  -> {final_ms, sources_txt,
                                     Image("proc_image_source-image.fits")}
      [] stage = "mask_sources"  -> {masked_sources_txt}
      [] stage = "subtract"      -> {subtracted_ms}
      [] stage = "phaseshift"    -> {shifted_ms}
      [] stage = "final_image"   -> {shifted_ms,
                                     Image("proc_image_source_sun_shifted-image.fits")}
      [] stage = "debug_image"   -> {subtracted_ms,
                                     Image("proc_image_source_masked_subtracted-image.fits")}
      [] OTHER                   -> {}

\* Mutant of PipeUnlinked: the unlink sits at the end of the try body instead
\* of a finally clause.
PipeUnlinkedOnSuccessOnly(fn, o) == IF o = "ok" THEN PipeTransient(fn) ELSE {}

\* Transient files removed when a stage function is left through outcome o
\* ("ok", "nonzero", "oserror", "sigint"): the finally clause of every function.
PipeUnlinked(fn, o) == PipeTransient(fn)

\* base_DP3_cmd: the one bind mount of a container call, <directory>:/data.
\* run_casa_applycal runs python3 on the host.
PipeVolumes(fn) ==
    IF fn \in PipeToolFns \ {"run_casa_applycal"}
    THEN {[host |-> "data", point |-> "/data"]} ELSE {}

\* Paths a container call of run_pipeline is given: the parset as
\* /data/<name>, measurement sets and products relative to the working
\* directory /data.
PipeCmdPaths(stage) ==
    IF PipeVolumes(PipeFn(stage)) = {} THEN {}
    ELSE {[space |-> "container", point |-> "/data", file |-> f] :
              f \in PipeTransient(PipeFn(stage)) \cup PipeReads(stage)
                    \cup PipeWrites(stage)}

\* Mutant of PipeOnFailure: the handler of run_wsclean_imaging prints and
\* returns.
PipeOnFailureSwallowImaging(fn, o) ==
    IF fn = "run_wsclean_imaging" /\ o = "nonzero" THEN "continue" ELSE "exit"

\* Mutant of PipeOnFailure: the handler of run_gaincal prints and returns.
PipeOnFailureSwallow(fn, o) ==
    IF fn = "run_gaincal" /\ o = "nonzero" THEN "continue" ELSE "exit"

\* What follows a failed tool in a stage function: sys.exit(1) in the
\* CalledProcessError handlers, the uncaught exception otherwise.
PipeOnFailure(fn, o) == "exit"

\* Every subprocess.run of the stage functions is called with check=True.
PipeCheck(fn) == TRUE

\* Stage functions that call subprocess.run with capture_output=True.
PipeCaptureOutput(fn) ==
    fn \in {"run_dp3_flag_avg", "run_wsclean_imaging", "run_gaincal", "phaseshift_to_sun"}

\* Stage functions with an except CalledProcessError handler: all but
\* phaseshift_to_sun, whose returncode test is never reached.
PipeHandles(fn) == fn # "phaseshift_to_sun"

\* Handlers that print e.stderr: only run_dp3_subtract.
PipeHandlerPrintsStderr(fn) == fn = "run_dp3_subtract"

\* What is printed when stage function fn is left through failure o: the
\* handler's "failed after <elapsed>s: <e>" line, or the interpreter's
\* traceback.  stderr tells what became of the tool's error output:
\* "inherited" (written straight to the terminal), "printed" (captured and
\* printed by the handler), "discarded" (captured and dropped), "none".
PipeMessage(fn, o) ==
    [fn      |-> fn,
     kind    |-> IF o = "nonzero" /\ PipeHandles(fn) THEN "handler" ELSE "traceback",
     elapsed |-> (o = "nonzero" /\ PipeHandles(fn)),
     stderr  |-> IF o # "nonzero" \/ fn \notin PipeToolFns THEN "none"
                 ELSE IF ~PipeCaptureOutput(fn) THEN "inherited"
                 ELSE IF PipeHandles(fn) /\ PipeHandlerPrintsStderr(fn) THEN "printed"
                 ELSE "discarded"]

IndexOf(seq, x) == CHOOSE i \in 1..Len(seq) : seq[i] = x

\* The call that follows stage in run_pipeline, "done" after the last one.
PipeNextStage(stage) ==
    LET i == IndexOf(PipeStages, stage)
    IN  IF i < Len(PipeStages) THEN PipeStages[i + 1] ELSE "done"

\* Mutant of PipeMain: the existence of the gain table is not checked.
PipeMainNoGaintableCheck ==
    /\ prog = "pipeline" /\ status = "running" /\ pc = "main"
    /\ IF input.argc < 3 \/ raw_ms \notin fs
       THEN /\ status' = "exit1"
            /\ UNCHANGED <<pc, phase>>
       ELSE /\ pc' = PipeStages[1]
            /\ phase' = "call"
            /\ UNCHANGED status
    /\ UNCHANGED <<prog, input, failedAt, fs, log, reports, scVars, outVars, mntVars>>

\* main(): argument count and input existence checks, then run_pipeline.
PipeMain ==
    /\ prog = "pipeline" /\ status = "running" /\ pc = "main"
    /\ IF input.argc < 3 \/ raw_ms \notin fs \/ gaintable \notin fs
       THEN /\ status' = "exit1"
            /\ UNCHANGED <<pc, phase>>
       ELSE /\ pc' = PipeStages[1]
            /\ phase' = "call"
            /\ UNCHANGED status
    /\ UNCHANGED <<prog, input, failedAt, fs, log, reports, scVars, outVars, mntVars>>

\* Mutant of PipeLeave: a stage whose tool exited nonzero is called once more.
PipeLeaveRetry(o) ==
    LET fn == PipeFn(pc) IN
    /\ fs' = (fs \ PipeUnlinked(fn, o)) \cup (IF o = "ok" THEN PipeWrites(pc) ELSE {})
    /\ raised' = Raised(PipeCheck(fn), o)
    /\ printed' = IF o = "ok" THEN printed ELSE Append(printed, PipeMessage(fn, o))
    /\ IF o = "nonzero" /\ printed = << >>
       THEN /\ phase' = "call"
            /\ UNCHANGED <<pc, status, failedAt>>
       ELSE IF o = "ok" \/ PipeOnFailure(fn, o) # "exit"
       THEN /\ pc' = PipeNextStage(pc)
            /\ phase' = IF pc' = "done" THEN "none" ELSE "call"
            /\ status' = IF pc' = "done" THEN "exit0" ELSE status
            /\ UNCHANGED failedAt
       ELSE /\ status' = "exit1"
            /\ failedAt' = pc
            /\ phase' = "none"
            /\ UNCHANGED pc

\* Leaving the stage function at pc with outcome o.
PipeLeave(o) ==
    LET fn == PipeFn(pc) IN
    /\ fs' = (fs \ PipeUnlinked(fn, o)) \cup (IF o = "ok" THEN PipeWrites(pc) ELSE {})
    /\ raised' = Raised(PipeCheck(fn), o)
    /\ printed' = IF o = "ok" THEN printed ELSE Append(printed, PipeMessage(fn, o))
    /\ IF o = "ok" \/ PipeOnFailure(fn, o) # "exit"
       THEN /\ pc' = PipeNextStage(pc)
            /\ phase' = IF pc' = "done" THEN "none" ELSE "call"
            /\ status' = IF pc' = "done" THEN "exit0" ELSE status
            /\ UNCHANGED failedAt
       ELSE /\ status' = "exit1"
            /\ failedAt' = pc
            /\ phase' = "none"
            /\ UNCHANGED pc

\* A stage function up to and including the write of its script or parset.
\* phaseshift_to_sun first checks that its input exists.
PipeWrite ==
    /\ prog = "pipeline" /\ status = "running" /\ phase = "call"
    /\ PipeFn(pc) \in PipeToolFns
    /\ IF PipeFn(pc) = "phaseshift_to_sun" /\ subtracted_ms \notin fs
       THEN /\ status' = "exit1"
            /\ failedAt' = pc
            /\ phase' = "none"
            /\ printed' = Append(printed, PipeMessage(PipeFn(pc), "raise"))
            /\ UNCHANGED <<fs, raised>>
       ELSE /\ fs' = fs \cup PipeTransient(PipeFn(pc))
            /\ phase' = "written"
            /\ UNCHANGED <<status, failedAt, outVars>>
    /\ UNCHANGED <<prog, input, pc, log, reports, scVars, mntVars>>

\* subprocess.run starts the tool, or raises OSError when it cannot be started.
PipeLaunch ==
    /\ prog = "pipeline" /\ status = "running" /\ phase = "written"
    /\ \E started \in BOOLEAN :
        IF started
        THEN /\ log' = Append(log, Entry(pc, PipeTool(PipeFn(pc)), 0, PipeReads(pc),
                                          PipeWrites(pc), PipeTransient(PipeFn(pc)), "pending"))
             /\ phase' = "running"
             /\ UNCHANGED <<pc, status, failedAt, fs, outVars>>
        ELSE /\ log' = Append(log, Entry(pc, PipeTool(PipeFn(pc)), 0, PipeReads(pc),
                                          PipeWrites(pc), PipeTransient(PipeFn(pc)), "oserror"))
             /\ PipeLeave("oserror")
    /\ UNCHANGED <<prog, input, reports, scVars, mntVars>>

\* The tool exits with code 0 or nonzero; handler and finally clause run.
PipeReturn ==
    /\ prog = "pipeline" /\ status = "running" /\ phase = "running"
    /\ \E o \in Outcomes : PipeLeave(o) /\ log' = SetExit(o)
    /\ UNCHANGED <<prog, input, reports, scVars, mntVars>>

\* Library calls of run_pipeline (source masking, plotting): return or raise.
PipeLibrary ==
    /\ prog = "pipeline" /\ status = "running" /\ phase = "call"
    /\ PipeFn(pc) \notin PipeToolFns
    /\ \E o \in {"ok", "raise"} :
        /\ PipeLeave(o)
        /\ log' = Append(log, Entry(pc, "library", 0, PipeReads(pc), PipeWrites(pc), {}, o))
    /\ UNCHANGED <<prog, input, reports, scVars, mntVars>>

\* The operator signals the process group while the tool runs.  SIGINT raises
\* KeyboardInterrupt in subprocess.run; SIGTERM has no handler and ends the
\* interpreter at once.
PipeCancel ==
    /\ prog = "pipeline" /\ status = "running" /\ phase = "running"
    /\ \E sig \in Signals :
        IF sig = "SIGINT"
        THEN PipeLeave("sigint") /\ log' = SetExit("sigint")
        ELSE /\ status' = "killed"
             /\ UNCHANGED <<pc, phase, failedAt, fs, log, outVars>>
    /\ UNCHANGED <<prog, input, reports, scVars, mntVars>>

PipeNext == PipeMain \/ PipeWrite \/ PipeLaunch \/ PipeReturn \/ PipeLibrary \/ PipeCancel

\* ======================================================================
\* dev_src/selfcal_pipeline.py
\* ======================================================================
ms_path == File("data", "ms.ms", 0)

config_file == File("cwd", "selfcal_config.yml", 0)

report_file == File("output", "pipeline_report.json", 0)

\* Mutant of OutputMs: the round index is left out of the name.
OutputMsNoIndex(k) == File("data", "ms_cal.ms", 0)

\* output_ms of round iteration: <stem>_cal_iter_<iteration>.ms beside the input.
OutputMs(k) == File("data", "ms_cal_iter_", k)

\* parset_file of run_dp3_calibration: cal_iter_<iteration>.parset in output_dir.
ScParset(k) == File("output", "cal_iter_.parset", k)

ScImage(name, k) == File("output", name, k)

\* main(): the --iterations override replaces the configured value when given.
ScIterationsOverride(cfg, arg) == IF arg # None THEN arg ELSE cfg

\* Mutant of ScLoopHasNext: range(1, selfcal_iterations).
ScLoopHasNextOffByOne(k, n) == k + 1 < n

\* range(1, selfcal_iterations + 1): whether a round follows round k.
ScLoopHasNext(k, n) == k + 1 <= n

\* The binary each call of run_selfcal_pipeline launches.
ScTool(label) ==
    CASE label \in {"check_podman", "pull"}      -> "podman"
      [] label \in {"test_dp3", "calibrate"}     -> "DP3"
      [] OTHER                                   -> "wsclean"

\* Transient parset written at a label: only run_dp3_calibration writes one.
ScTransient(label, k) == IF label = "calibrate" THEN {ScParset(k)} ELSE {}

\* Mutant of ScReads: every round calibrates the original measurement set.
ScReadsOriginal(label, k, cur) ==
    CASE label = "initial_image" -> {ms_path}
      [] label = "calibrate"     -> {ms_path}
      [] label = "image"         -> {OutputMs(k)}
      [] OTHER                   -> {}

\* Mutant of ScReads: every round images the original measurement set.
ScReadsImageOriginal(label, k, cur) ==
    CASE label = "initial_image" -> {ms_path}
      [] label = "calibrate"     -> {cur}
      [] label = "image"         -> {ms_path}
      [] OTHER                   -> {}

\* Measurement set a call is given as input.
ScReads(label, k, cur) ==
    CASE label = "initial_image" -> {ms_path}
      [] label = "calibrate"     -> {cur}
      [] label = "image"         -> {OutputMs(k)}
      [] OTHER                   -> {}

\* Paths a call writes when it succeeds (wsclean with mgain < 1 fills the
\* MODEL_DATA column of its input besides writing the image).
ScWrites(label, k) ==
    CASE label = "initial_image" -> {ms_path, ScImage("initial_image", 0)}
      [] label = "calibrate"     -> {OutputMs(k)}
      [] label = "image"         -> {OutputMs(k), ScImage("image_iter_", k)}
      [] OTHER                   -> {}

\* Transient files removed when run_dp3_calibration is left: it has no cleanup.
ScUnlinked(label, k, o) == {}

\* check_podman and test_linc_tools return False, the other calls raise; main
\* turns both into sys.exit(1).
ScOnFailure(label, o) == "exit"

\* volumes of run_wsclean_imaging and run_dp3_calibration: the directory of
\* the measurement set at /data and output_dir at /output (workdir /output).
ScVolumes(label) ==
    IF label \in {"initial_image", "calibrate", "image"}
    THEN {[host |-> "data", point |-> "/data"], [host |-> "output", point |-> "/output"]}
    ELSE {}

\* Paths a container call is given.  run_wsclean_imaging passes str(input_ms)
\* and an image name relative to the working directory; run_dp3_calibration
\* passes str(parset_file) and names both measurement sets as /data/<name>
\* inside the parset.  space "host" marks a path passed as it is on the host.
ScCmdPaths(label, k, reads) ==
    CASE label \in {"initial_image", "image"} ->
             {[space |-> "host", point |-> "", file |-> f] : f \in reads}
             \cup {[space |-> "container", point |-> "/output", file |-> f] :
                       f \in {ScImage("initial_image", 0), ScImage("image_iter_", k)}
                             \cap ScWrites(label, k)}
      [] label = "calibrate" ->
             {[space |-> "host", point |-> "", file |-> ScParset(k)]}
             \cup {[space |-> "container", point |-> "/data", file |-> f] :
                       f \in reads \cup {OutputMs(k)}}
      [] OTHER -> {}

\* subprocess.run is called with check=True in check_podman, pull_linc_image
\* and run_linc_command, which logs the CalledProcessError and re-raises it.
ScCheck(label) == TRUE

\* Calls that go through run_linc_command.
ScRunnerCalls == {"test_dp3", "test_wsclean", "initial_image", "calibrate", "image"}

\* The straight-line part of run_selfcal_pipeline before the loop.
ScPrologue == <<"check_podman", "pull", "test_dp3", "test_wsclean", "initial_image">>

\* SelfCalPipeline.__init__ and the override in main().
ScMain ==
    /\ prog = "selfcal" /\ status = "running" /\ pc = "main"
    /\ IF config_file \notin fs \/ ms_path \notin fs
       THEN /\ status' = "exit1"
            /\ UNCHANGED <<pc, phase, selfcal_iterations>>
       ELSE /\ selfcal_iterations' = ScIterationsOverride(input.cfgIter, input.argIter)
            /\ pc' = ScPrologue[1]
            /\ phase' = "call"
            /\ UNCHANGED status
    /\ UNCHANGED <<prog, input, failedAt, fs, log, reports, iteration, current_ms,
                 outVars, mntVars>>

\* Control after the call at pc succeeded.
ScAdvance ==
    IF pc \in {"initial_image", "image"}
    THEN /\ current_ms' = IF pc = "image" THEN OutputMs(iteration) ELSE ms_path
         /\ IF ScLoopHasNext(iteration, selfcal_iterations)
            THEN /\ iteration' = iteration + 1
                 /\ pc' = "calibrate"
                 /\ phase' = "call"
            ELSE /\ pc' = "report"
                 /\ phase' = "none"
                 /\ UNCHANGED iteration
    ELSE /\ pc' = IF pc = "calibrate" THEN "image"
                  ELSE ScPrologue[IndexOf(ScPrologue, pc) + 1]
         /\ phase' = "call"
         /\ UNCHANGED <<iteration, current_ms>>

\* Leaving the call at pc with outcome o.
ScLeave(o) ==
    /\ fs' = (fs \ ScUnlinked(pc, iteration, o))
             \cup (IF o = "ok" THEN ScWrites(pc, iteration) ELSE {})
    /\ raised' = Raised(ScCheck(pc), o)
    /\ UNCHANGED printed
    /\ IF o = "ok" \/ ScOnFailure(pc, o) # "exit"
       THEN /\ ScAdvance
            /\ UNCHANGED <<status, failedAt>>
       ELSE /\ status' = "exit1"
            /\ failedAt' = pc
            /\ phase' = "none"
            /\ UNCHANGED <<pc, iteration, current_ms>>

\* A call up to the launch of its tool; run_dp3_calibration writes its parset.
ScWrite ==
    /\ prog = "selfcal" /\ status = "running" /\ phase = "call"
    /\ fs' = fs \cup ScTransient(pc, iteration)
    /\ phase' = "written"
    /\ UNCHANGED <<prog, input, pc, status, failedAt, log, reports, scVars, outVars,
                 mntVars>>

\* subprocess.run starts the tool, or raises OSError when it cannot be started.
ScLaunch ==
    /\ prog = "selfcal" /\ status = "running" /\ phase = "written"
    /\ \E started \in BOOLEAN :
        IF started
        THEN /\ log' = Append(log, Entry(pc, ScTool(pc), iteration,
                                          ScReads(pc, iteration, current_ms),
                                          ScWrites(pc, iteration),
                                          ScTransient(pc, iteration), "pending"))
             /\ phase' = "running"
             /\ UNCHANGED <<pc, status, failedAt, fs, scVars, outVars>>
        ELSE /\ log' = Append(log, Entry(pc, ScTool(pc), iteration,
                                          ScReads(pc, iteration, current_ms),
                                          ScWrites(pc, iteration),
                                          ScTransient(pc, iteration), "oserror"))
             /\ ScLeave("oserror")
             /\ UNCHANGED selfcal_iterations
    /\ UNCHANGED <<prog, input, reports, mntVars>>

\* The tool exits with code 0 or nonzero.
ScReturn ==
    /\ prog = "selfcal" /\ status = "running" /\ phase = "running"
    /\ \E o \in Outcomes : ScLeave(o) /\ log' = SetExit(o)
    /\ UNCHANGED <<prog, input, reports, selfcal_iterations, mntVars>>

\* The operator signals the process group while the tool runs.
ScCancel ==
    /\ prog = "selfcal" /\ status = "running" /\ phase = "running"
    /\ \E sig \in Signals :
        IF sig = "SIGINT"
        THEN ScLeave("sigint") /\ log' = SetExit("sigint")
        ELSE /\ status' = "killed"
             /\ UNCHANGED <<pc, phase, failedAt, fs, iteration, current_ms, log, outVars>>
    /\ UNCHANGED <<prog, input, reports, selfcal_iterations, mntVars>>

\* Mutant of ScReport: the report records the configured round count even
\* when --iterations replaced it.
ScReportConfigValue ==
    /\ prog = "selfcal" /\ status = "running" /\ pc = "report"
    /\ reports' = Append(reports, [status |-> "completed",
                                   selfcal_iterations |-> input.cfgIter,
                                   input_ms |-> ms_path])
    /\ fs' = fs \cup {report_file}
    /\ status' = "exit0"
    /\ pc' = "done"
    /\ UNCHANGED <<prog, input, phase, failedAt, log, scVars, outVars, mntVars>>

\* generate_report, called by main() when run_selfcal_pipeline returned True.
ScReport ==
    /\ prog = "selfcal" /\ status = "running" /\ pc = "report"
    /\ reports' = Append(reports, [status |-> "completed",
                                   selfcal_iterations |-> selfcal_iterations,
                                   input_ms |-> ms_path])
    /\ fs' = fs \cup {report_file}
    /\ status' = "exit0"
    /\ pc' = "done"
    /\ UNCHANGED <<prog, input, phase, failedAt, log, scVars, outVars, mntVars>>

ScNext == ScMain \/ ScWrite \/ ScLaunch \/ ScReturn \/ ScCancel \/ ScReport

\* ======================================================================
\* dev_src/run_dp3_flag_avg.py
\* ======================================================================
fa_input_ms == File("data", "input.ms", 0)

fa_output_ms == File("data", "output.ms", 0)

\* parset_file = Path("dp3_flag_avg.parset"), in the working directory.
FaParset == File("cwd", "dp3_flag_avg.parset", 0)

\* subprocess.run(podman_cmd, check=True, capture_output=True, text=True)
FaCheck == TRUE

\* parset_file.unlink() sits in the try body after the successful run only.
FaUnlinked(o) == IF o = "ok" THEN {FaParset} ELSE {}

\* main(): usage and input existence checks, then run_dp3_flag_avg.
FaMain ==
    /\ prog = "flagavg" /\ status = "running" /\ pc = "main"
    /\ IF input.argc < 3 \/ fa_input_ms \notin fs
       THEN /\ status' = "exit1"
            /\ UNCHANGED <<pc, phase>>
       ELSE /\ pc' = "dp3_flag_avg"
            /\ phase' = "call"
            /\ UNCHANGED status
    /\ UNCHANGED <<prog, input, failedAt, fs, log, reports, scVars, outVars, mntVars>>

\* Leaving run_dp3_flag_avg with outcome o; main() then ends the process.
FaLeave(o) ==
    /\ fs' = (fs \ FaUnlinked(o)) \cup (IF o = "ok" THEN {fa_output_ms} ELSE {})
    /\ raised' = Raised(FaCheck, o)
    /\ UNCHANGED printed
    /\ phase' = "none"
    /\ IF o = "ok"
       THEN /\ pc' = "done"
            /\ status' = "exit0"
            /\ UNCHANGED failedAt
       ELSE /\ status' = "exit1"
            /\ failedAt' = pc
            /\ UNCHANGED pc

\* run_dp3_flag_avg up to and including the write of the parset.
FaWrite ==
    /\ prog = "flagavg" /\ status = "running" /\ phase = "call"
    /\ fs' = fs \cup {FaParset}
    /\ phase' = "written"
    /\ UNCHANGED <<prog, input, pc, status, failedAt, log, reports, scVars, outVars,
                 mntVars>>

\* subprocess.run starts podman, or raises OSError when it cannot be started.
FaLaunch ==
    /\ prog = "flagavg" /\ status = "running" /\ phase = "written"
    /\ \E started \in BOOLEAN :
        IF started
        THEN /\ log' = Append(log, Entry(pc, "DP3", 0, {fa_input_ms}, {fa_output_ms},
                                          {FaParset}, "pending"))
             /\ phase' = "running"
             /\ UNCHANGED <<pc, status, failedAt, fs, outVars>>
        ELSE /\ log' = Append(log, Entry(pc, "DP3", 0, {fa_input_ms}, {fa_output_ms},
                                          {FaParset}, "oserror"))
             /\ FaLeave("oserror")
    /\ UNCHANGED <<prog, input, reports, scVars, mntVars>>

\* DP3 exits with code 0 or nonzero.
FaReturn ==
    /\ prog = "flagavg" /\ status = "running" /\ phase = "running"
    /\ \E o \in Outcomes : FaLeave(o) /\ log' = SetExit(o)
    /\ UNCHANGED <<prog, input, reports, scVars, mntVars>>

\* The operator signals the process group while DP3 runs.
FaCancel ==
    /\ prog = "flagavg" /\ status = "running" /\ phase = "running"
    /\ \E sig \in Signals :
        IF sig = "SIGINT"
        THEN FaLeave("sigint") /\ log' = SetExit("sigint")
        ELSE /\ status' = "killed"
             /\ UNCHANGED <<pc, phase, failedAt, fs, log, outVars>>
    /\ UNCHANGED <<prog, input, reports, scVars, mntVars>>

FaNext == FaMain \/ FaWrite \/ FaLaunch \/ FaReturn \/ FaCancel

\* ======================================================================
\* script/subtract_sources.py
\* ======================================================================
sub_ms_file == File("data", "data.ms", 0)

sub_source_file == File("data", "sources.txt", 0)

\* output_ms defaults to <stem>_subtracted.ms beside the input.
sub_output_ms == File("data", "data_subtracted.ms", 0)

\* tempfile.NamedTemporaryFile(suffix='.parset', delete=False)
SubTempParset == File("tmp", "tmp.parset", 0)

\* container_parset = common_parent / "subtract_sources.parset"
SubContainerParset == File("data", "subtract_sources.parset", 0)

\* subprocess.run(cmd, capture_output=True, text=True): no check; the stage
\* tests result.returncode itself and raises RuntimeError.
SubCheck == FALSE

\* The finally clause removes the temporary parset on every path; the copy in
\* the mounted directory is removed after a successful run only.
SubUnlinked(o) == IF o = "ok" THEN {SubTempParset, SubContainerParset} ELSE {SubTempParset}

\* main() and the input validation of subtract_sources_dp3.
SubMain ==
    /\ prog = "subtract" /\ status = "running" /\ pc = "main"
    /\ IF input.argc < 3 \/ sub_ms_file \notin fs \/ sub_source_file \notin fs
       THEN /\ status' = "exit1"
            /\ UNCHANGED <<pc, phase>>
       ELSE /\ pc' = "subtract"
            /\ phase' = "call"
            /\ UNCHANGED status
    /\ UNCHANGED <<prog, input, failedAt, fs, log, reports, scVars, outVars, mntVars>>

\* Leaving subtract_sources_dp3 with outcome o; main() then ends the process.
SubLeave(o) ==
    /\ fs' = (fs \ SubUnlinked(o)) \cup (IF o = "ok" THEN {sub_output_ms} ELSE {})
    /\ raised' = Raised(SubCheck, o)
    /\ UNCHANGED printed
    /\ phase' = "none"
    /\ IF o = "ok"
       THEN /\ pc' = "done"
            /\ status' = "exit0"
            /\ UNCHANGED failedAt
       ELSE /\ status' = "exit1"
            /\ failedAt' = pc
            /\ UNCHANGED pc

\* subtract_sources_dp3 up to the launch: both parset copies are written.
SubWrite ==
    /\ prog = "subtract" /\ status = "running" /\ phase = "call"
    /\ fs' = fs \cup {SubTempParset, SubContainerParset}
    /\ phase' = "written"
    /\ UNCHANGED <<prog, input, pc, status, failedAt, log, reports, scVars, outVars,
                 mntVars>>

\* subprocess.run starts podman, or raises OSError when it cannot be started.
SubLaunch ==
    /\ prog = "subtract" /\ status = "running" /\ phase = "written"
    /\ \E started \in BOOLEAN :
        IF started
        THEN /\ log' = Append(log, Entry(pc, "DP3", 0, {sub_ms_file, sub_source_file},
                                          {sub_output_ms}, {SubContainerParset}, "pending"))
             /\ phase' = "running"
             /\ UNCHANGED <<pc, status, failedAt, fs, outVars>>
        ELSE /\ log' = Append(log, Entry(pc, "DP3", 0, {sub_ms_file, sub_source_file},
                                          {sub_output_ms}, {SubContainerParset}, "oserror"))
             /\ SubLeave("oserror")
    /\ UNCHANGED <<prog, input, reports, scVars, mntVars>>

\* DP3 exits with code 0 or nonzero (RuntimeError is raised for nonzero).
SubReturn ==
    /\ prog = "subtract" /\ status = "running" /\ phase = "running"
    /\ \E o \in Outcomes : SubLeave(o) /\ log' = SetExit(o)
    /\ UNCHANGED <<prog, input, reports, scVars, mntVars>>

\* The operator signals the process group while DP3 runs.
SubCancel ==
    /\ prog = "subtract" /\ status = "running" /\ phase = "running"
    /\ \E sig \in Signals :
        IF sig = "SIGINT"
        THEN SubLeave("sigint") /\ log' = SetExit("sigint")
        ELSE /\ status' = "killed"
             /\ UNCHANGED <<pc, phase, failedAt, fs, log, outVars>>
    /\ UNCHANGED <<prog, input, reports, scVars, mntVars>>

SubNext == SubMain \/ SubWrite \/ SubLaunch \/ SubReturn \/ SubCancel

\* ======================================================================
\* mount roots and path translation of the stages that derive their mount
\*   pipeline_quick_proc_img.py : run_dp3_subtract, phaseshift_to_sun
\*   phaseshift_to_sun.py       : phaseshift_to_sun
\*   script/subtract_sources.py : subtract_sources_dp3
\* A resolved absolute path is the sequence of its components below "/";
\* a component is a sequence of characters.
\* ======================================================================
\* deepest path tried (number of components, file name included)
MaxDepth == 3

\* component names: "a", "ab" (which has "a" as a string prefix) and "b"
Names == {<<"a">>, <<"a", "b">>, <<"b">>}

ShortNames == {<<"a">>, <<"b">>}

PathsUpTo(names, n) == UNION {[1..d -> names] : d \in 1..n}

\* Path("/")
Root == << >>

\* Path.parent
Parent(p) == SubSeq(p, 1, Len(p) - 1)

IsPartsPrefix(r, p) == Len(r) <= Len(p) /\ SubSeq(p, 1, Len(r)) = r

RECURSIVE Join(_)
Join(p) == IF p = << >> THEN << >> ELSE <<"/">> \o Head(p) \o Join(Tail(p))

\* str(path): "/" for the root, else every component preceded by "/".
Str(p) == IF p = Root THEN <<"/">> ELSE Join(p)

\* str.startswith
StartsWith(s, t) == Len(t) <= Len(s) /\ SubSeq(s, 1, Len(t)) = t

\* The component-wise common prefix of a set of paths: the loop of
\* subtract_sources_dp3 over the parts of its three paths.
CommonParts(ps) ==
    LET p0 == CHOOSE p \in ps : TRUE
        ks == {k \in 0..Len(p0) : \A p \in ps : IsPartsPrefix(SubSeq(p0, 1, k), p)}
        n  == CHOOSE k \in ks : \A j \in ks : j <= k
    IN  SubSeq(p0, 1, n)

\* os.path.commonpath: the longest common sub-path, compared by components.
commonpath(ps) == CommonParts(ps)

\* Mutant of RelativeToRaises: "is under" tested on the strings.
RelativeToRaisesByString(p, root) == ~StartsWith(Str(p), Str(root))

\* Path.relative_to(root) raises ValueError unless root's parts are a prefix
\* of p's parts.
RelativeToRaises(p, root) == ~IsPartsPrefix(root, p)

\* Path.relative_to(root): the parts of p after those of root.
RelativeTo(p, root) == SubSeq(p, Len(root) + 1, Len(p))

\* The relative_to calls of a stage function for its paths ps inside root.
Translate(root, ps) ==
    LET bad == {i \in DOMAIN ps : RelativeToRaises(ps[i], root)}
    IN  [root  |-> root,
         error |-> IF bad = {} THEN "none" ELSE "ValueError",
         rels  |-> IF bad = {} THEN [i \in DOMAIN ps |-> RelativeTo(ps[i], root)]
                   ELSE << >>]

\* phaseshift_to_sun.py: the input's parent, or "/" when str(output) does not
\* start with it.  ps = <<ms_abs, output_abs>>.
PsStandaloneMount(ps) ==
    LET common_parent == IF StartsWith(Str(ps[2]), Str(Parent(ps[1])))
                         THEN Parent(ps[1]) ELSE Root
    IN  Translate(common_parent, ps)

\* pipeline_quick_proc_img.phaseshift_to_sun: always the input's parent.
PsPipelineMount(ps) == Translate(Parent(ps[1]), ps)

\* run_dp3_subtract: commonpath of the three parents.
\* ps = <<input_path, output_path, source_path>>.
RunDp3SubtractMount(ps) ==
    Translate(commonpath({Parent(ps[i]) : i \in DOMAIN ps}), ps)

\* subtract_sources_dp3: common parts of the three full paths.
\* ps = <<ms_abs, source_abs, output_abs>>.
SubtractSourcesMount(ps) ==
    Translate(CommonParts({ps[i] : i \in DOMAIN ps}), ps)

MountFns ==
    {"phaseshift_to_sun.phaseshift_to_sun", "pipeline.phaseshift_to_sun",
     "pipeline.run_dp3_subtract", "subtract_sources.subtract_sources_dp3"}

MountOf(fn, ps) ==
    CASE fn = "phaseshift_to_sun.phaseshift_to_sun" -> PsStandaloneMount(ps)
      [] fn = "pipeline.phaseshift_to_sun"          -> PsPipelineMount(ps)
      [] fn = "pipeline.run_dp3_subtract"           -> RunDp3SubtractMount(ps)
      [] OTHER                                      -> SubtractSourcesMount(ps)

\* The parset each function writes into its mount root (directory "root");
\* subtract_sources_dp3 writes a temporary copy as well.
MountParsets(fn) ==
    CASE fn = "phaseshift_to_sun.phaseshift_to_sun" ->
             {File("root", "phaseshift_to_sun.parset", 0)}
      [] fn = "pipeline.phaseshift_to_sun" ->
             {File("root", "phaseshift_to_sun.parset", 0)}
      [] fn = "pipeline.run_dp3_subtract" ->
             {File("root", "subtract.parset", 0)}
      [] OTHER ->
             {File("root", "subtract_sources.parset", 0), SubTempParset}

\* Parsets removed when the function is left after its tool ended with o.
MountUnlinked(fn, o) ==
    IF fn = "subtract_sources.subtract_sources_dp3" /\ o # "ok"
    THEN {SubTempParset} ELSE MountParsets(fn)

\* check=True in the functions of pipeline_quick_proc_img only.
MountCheck(fn) == fn \in {"pipeline.phaseshift_to_sun", "pipeline.run_dp3_subtract"}

\* resolve() and the relative_to calls: ValueError leaves the function before
\* anything is written.
MountResolve ==
    /\ prog = "mount" /\ status = "running" /\ pc = "main"
    /\ mount' = MountOf(paths.fn, paths.ps)
    /\ IF mount'.error = "none"
       THEN pc' = "resolved" /\ UNCHANGED status
       ELSE status' = "exit1" /\ UNCHANGED pc
    /\ UNCHANGED <<prog, input, phase, failedAt, fs, log, reports, scVars, outVars, paths,
                   extVars>>

\* What the stage function returns after DP3 exited with 0: the standalone
\* phase shift and both subtractions return the output path, the pipeline's
\* phase shift returns its input path; run_dp3_subtract returns nothing.
MountReturnValue(fn, ps) ==
    CASE fn = "phaseshift_to_sun.phaseshift_to_sun" -> [kind |-> "value", value |-> ps[2]]
      [] fn = "pipeline.phaseshift_to_sun"          -> [kind |-> "value", value |-> ps[1]]
      [] fn = "pipeline.run_dp3_subtract"           -> NoReturn
      [] fn = "subtract_sources.subtract_sources_dp3" -> [kind |-> "value", value |-> ps[2]]

\* The parset is written into the mount root.
MountWrite ==
    /\ prog = "mount" /\ status = "running" /\ pc = "resolved"
    /\ fs' = fs \cup MountParsets(paths.fn)
    /\ pc' = "written"
    /\ UNCHANGED <<prog, input, phase, status, failedAt, log, reports, scVars, outVars,
                   mntVars>>

\* DP3 is started in the container that mounts the root at /data.
MountLaunch ==
    /\ prog = "mount" /\ status = "running" /\ pc = "written"
    /\ log' = Append(log, Entry(paths.fn, "DP3", 0, {}, {}, MountParsets(paths.fn),
                                "pending"))
    /\ pc' = "running"
    /\ UNCHANGED <<prog, input, phase, status, failedAt, fs, reports, scVars, outVars,
                   mntVars>>

\* DP3 exits; the finally clause runs and the function returns or fails.
MountReturn ==
    /\ prog = "mount" /\ status = "running" /\ pc = "running"
    /\ \E o \in Outcomes :
        /\ log' = SetExit(o)
        /\ fs' = fs \ MountUnlinked(paths.fn, o)
        /\ raised' = Raised(MountCheck(paths.fn), o)
        /\ status' = IF o = "ok" THEN "exit0" ELSE "exit1"
        /\ returned' = IF o = "ok" THEN MountReturnValue(paths.fn, paths.ps)
                                   ELSE NoReturn
    /\ pc' = "done"
    /\ UNCHANGED <<prog, input, phase, failedAt, reports, scVars, printed, paths, mount,
                   rendered, conc, rt>>

MountNext == MountResolve \/ MountWrite \/ MountLaunch \/ MountReturn

\* ======================================================================
\* dev_src/run_gaincal.py
\* ======================================================================
gc_input_ms == File("data", "input.ms", 0)

\* output_ms default: <stem>_cal.ms beside the input.
gc_output_ms == File("data", "input_cal.ms", 0)

\* parset_file: gaincal.parset in the current directory.
GcParset == File("cwd", "gaincal.parset", 0)

\* The parset is unlinked at the end of the try body and in the handler of
\* CalledProcessError; any other exception leaves it.
GcUnlinked(o) == IF o \in {"ok", "nonzero"} THEN {GcParset} ELSE {}

\* What run_gaincal prints about the outcome of DP3: after exit code 0 the
\* completion message, then whether the output measurement set exists.
GcMessage(o, exists) ==
    CASE o = "ok"      -> [fn |-> "run_gaincal", kind |-> "completed",
                           output |-> IF exists THEN "created" ELSE "not found"]
      [] o = "nonzero" -> [fn |-> "run_gaincal", kind |-> "failed", output |-> "none"]
      [] OTHER         -> [fn |-> "run_gaincal", kind |-> "traceback", output |-> "none"]

\* Exit status of the process for outcome o of DP3: a missing output after
\* exit code 0 only prints a warning.
GcExit(o, exists) == IF o = "ok" THEN "exit0" ELSE "exit1"

\* main(): usage check, then the input existence check of run_gaincal.
GcMain ==
    /\ prog = "gaincal" /\ status = "running" /\ pc = "main"
    /\ IF input.argc < 2 \/ gc_input_ms \notin fs
       THEN /\ status' = "exit1"
            /\ UNCHANGED <<pc, phase>>
       ELSE /\ pc' = "run_gaincal"
            /\ phase' = "call"
            /\ UNCHANGED status
    /\ UNCHANGED <<prog, input, failedAt, fs, log, reports, scVars, outVars, mntVars>>

\* Leaving run_gaincal with outcome o; produced tells whether DP3 wrote the
\* output measurement set before it exited with 0.
GcLeave(o, produced) ==
    /\ fs' = (fs \ GcUnlinked(o))
             \cup (IF o = "ok" /\ produced THEN {gc_output_ms} ELSE {})
    /\ raised' = Raised(TRUE, o)
    /\ printed' = Append(printed, GcMessage(o, o = "ok" /\ produced))
    /\ phase' = "none"
    /\ status' = GcExit(o, o = "ok" /\ produced)
    /\ IF o = "ok"
       THEN pc' = "done" /\ UNCHANGED failedAt
       ELSE failedAt' = pc /\ UNCHANGED pc

\* run_gaincal up to and including the write of the parset.
GcWrite ==
    /\ prog = "gaincal" /\ status = "running" /\ phase = "call"
    /\ fs' = fs \cup {GcParset}
    /\ phase' = "written"
    /\ UNCHANGED <<prog, input, pc, status, failedAt, log, reports, scVars, outVars,
                   mntVars>>

\* subprocess.run starts podman, or raises OSError when it cannot be started.
GcLaunch ==
    /\ prog = "gaincal" /\ status = "running" /\ phase = "written"
    /\ \E started \in BOOLEAN :
        IF started
        THEN /\ log' = Append(log, Entry(pc, "DP3", 0, {gc_input_ms}, {gc_output_ms},
                                          {GcParset}, "pending"))
             /\ phase' = "running"
             /\ UNCHANGED <<pc, status, failedAt, fs, outVars>>
        ELSE /\ log' = Append(log, Entry(pc, "DP3", 0, {gc_input_ms}, {gc_output_ms},
                                          {GcParset}, "oserror"))
             /\ GcLeave("oserror", FALSE)
    /\ UNCHANGED <<prog, input, reports, scVars, mntVars>>

\* DP3 exits with code 0 or nonzero; with code 0 it may or may not have
\* written the output measurement set.
GcReturn ==
    /\ prog = "gaincal" /\ status = "running" /\ phase = "running"
    /\ \E o \in Outcomes, produced \in BOOLEAN :
          GcLeave(o, produced) /\ log' = SetExit(o)
    /\ UNCHANGED <<prog, input, reports, scVars, mntVars>>

GcNext == GcMain \/ GcWrite \/ GcLaunch \/ GcReturn

\* ======================================================================
\* parset rendering: run_applycal_dp3 and run_dp3_calibration
\* ======================================================================
\* largest number of renderings in one behaviour
MaxRenders == 2

\* str.join
RECURSIVE JoinWith(_, _)
JoinWith(sep, lst) ==
    IF lst = << >> THEN << >>
    ELSE IF Len(lst) = 1 THEN <<Head(lst)>>
    ELSE <<Head(lst), sep>> \o JoinWith(sep, Tail(lst))

\* str() of a relative path: the components joined by "/".
RelStr(rel) == IF rel = << >> THEN <<".">> ELSE Tail(Join(rel))

\* str(b).lower() of a bool
BoolLower(b) == IF b THEN <<"true">> ELSE <<"false">>

RECURSIVE CorrectionLines(_)
CorrectionLines(lst) ==
    IF lst = << >> THEN << >>
    ELSE <<[key |-> <<"applycal.", Head(lst), ".correction">>,
            value |-> <<Head(lst), "000">>]>> \o CorrectionLines(Tail(lst))

\* Mutant of RenderApplycal: the default list of corrections is shared
\* between calls and grows by one entry per earlier call.
RenderApplycalSharedDefault(input_ms, output_ms, solution_fname, cal_entry_lst, amb) ==
    LET common_parent == commonpath({Parent(input_ms), Parent(output_ms)})
        lst == cal_entry_lst \o [i \in 1..amb.calls |-> "phase"]
    IN  << [key |-> <<"msin">>,  value |-> RelStr(RelativeTo(input_ms, common_parent))],
           [key |-> <<"msout">>, value |-> RelStr(RelativeTo(output_ms, common_parent))],
           [key |-> <<"steps">>, value |-> <<"[applycal]">>],
           [key |-> <<"applycal.parmdb">>, value |-> <<solution_fname>>],
           [key |-> <<"applycal.steps">>,
            value |-> <<"[ ">> \o JoinWith(", ", lst) \o <<" ]">>] >>
        \o CorrectionLines(lst)

\* parset_content of run_applycal_dp3: the lines of the f-string and one
\* correction line per calibration entry.  amb is the state around the call
\* (working directory, number of earlier calls), which the code does not read.
RenderApplycal(input_ms, output_ms, solution_fname, cal_entry_lst, amb) ==
    LET common_parent == commonpath({Parent(input_ms), Parent(output_ms)})
    IN  << [key |-> <<"msin">>,  value |-> RelStr(RelativeTo(input_ms, common_parent))],
           [key |-> <<"msout">>, value |-> RelStr(RelativeTo(output_ms, common_parent))],
           [key |-> <<"steps">>, value |-> <<"[applycal]">>],
           [key |-> <<"applycal.parmdb">>, value |-> <<solution_fname>>],
           [key |-> <<"applycal.steps">>,
            value |-> <<"[ ">> \o JoinWith(", ", cal_entry_lst) \o <<" ]">>] >>
        \o CorrectionLines(cal_entry_lst)

\* cal_parset of run_dp3_calibration: the measurement set names under /data
\* and the parameters loaded from the configuration file.
RenderCalParset(input_ms, output_ms, config, amb) ==
    << [key |-> <<"msin.type">>,  value |-> <<"ms">>],
       [key |-> <<"msin.name">>,  value |-> <<"/data/">> \o input_ms[Len(input_ms)]],
       [key |-> <<"msin.ntime">>, value |-> <<config.ntime>>],
       [key |-> <<"msout.type">>, value |-> <<"ms">>],
       [key |-> <<"msout.name">>, value |-> <<"/data/">> \o output_ms[Len(output_ms)]],
       [key |-> <<"msout.writefullresflag">>,
        value |-> BoolLower(config.write_full_res_flag)],
       [key |-> <<"steps">>,       value |-> <<"[cal]">>],
       [key |-> <<"cal.type">>,    value |-> <<"gaincal">>],
       [key |-> <<"cal.solint">>,  value |-> <<config.solution_interval>>],
       [key |-> <<"cal.caltype">>, value |-> <<config.calibration_type>>],
       [key |-> <<"cal.applysmooth">>, value |-> BoolLower(config.apply_smooth)],
       [key |-> <<"cal.smoothnessconstraint">>, value |-> <<config.smoothness_constraint>>],
       [key |-> <<"cal.soltype">>,   value |-> <<config.solver_type>>],
       [key |-> <<"cal.maxiter">>,   value |-> <<config.max_iterations>>],
       [key |-> <<"cal.tolerance">>, value |-> <<config.tolerance>>],
       [key |-> <<"cal.usemodelcolumn">>, value |-> BoolLower(config.use_model_column)],
       [key |-> <<"cal.modelcolumn">>,    value |-> <<config.model_column>>] >>

\* Measurement set paths the renderings are tried with.
RenderInputs == {<< <<"a">>, <<"a">> >>, << <<"a">>, <<"b">>, <<"a">> >>}

RenderOutputs == {<< <<"a">>, <<"b">> >>, << <<"a">>, <<"b">>, <<"b">> >>}

\* Two configuration files for run_dp3_calibration.
RenderConfigs ==
    {[ntime |-> "ntime1", write_full_res_flag |-> f, solution_interval |-> "solint1",
      calibration_type |-> "diagonal", apply_smooth |-> FALSE,
      smoothness_constraint |-> "smooth1", solver_type |-> "solver1",
      max_iterations |-> "maxiter1", tolerance |-> "tol1",
      use_model_column |-> TRUE, model_column |-> "MODEL_DATA"] : f \in BOOLEAN}

\* Arguments of one call of a rendering function.
RenderCalls ==
    {[fn |-> "run_applycal_dp3", input_ms |-> i, output_ms |-> o,
      solution_fname |-> "solution.h5", cal_entry_lst |-> l] :
        i \in RenderInputs, o \in RenderOutputs,
        l \in {<<"phase">>, <<"phase", "amplitude">>}}
    \cup
    {[fn |-> "run_dp3_calibration", input_ms |-> i,
      output_ms |-> << <<"a">>, <<"b">> >>, config |-> c] :
        i \in RenderInputs, c \in RenderConfigs}

\* The text a call renders in ambient state amb.
RenderText(args, amb) ==
    IF args.fn = "run_applycal_dp3"
    THEN RenderApplycal(args.input_ms, args.output_ms, args.solution_fname,
                        args.cal_entry_lst, amb)
    ELSE RenderCalParset(args.input_ms, args.output_ms, args.config, amb)

\* One call of a stage function up to the point where its parset is rendered,
\* from some working directory and after the calls made so far.
Render ==
    /\ prog = "render" /\ Len(rendered) < MaxRenders
    /\ \E args \in RenderCalls, cwd \in {"cwd1", "cwd2"} :
          LET amb == [cwd |-> cwd, calls |-> Len(rendered)]
          IN  rendered' = Append(rendered, [args |-> args, amb |-> amb,
                                            text |-> RenderText(args, amb)])
    /\ UNCHANGED <<prog, input, pc, phase, status, failedAt, fs, log, reports, scVars,
                   outVars, paths, mount, returned, conc, rt>>

RenderNext == Render

\* ======================================================================
\* two concurrent invocations of a stage function of pipeline_quick_proc_img
\* ======================================================================
Procs == {"A", "B"}

\* Stage functions whose transient script or parset is studied.
ConcFns == {"run_casa_applycal", "run_dp3_flag_avg", "run_applycal_dp3"}

\* Path of the transient file invocation p of fn writes: a fixed name in the
\* working directory or beside the data, with no part that names the invocation.
ConcTransient(fn, p) == CHOOSE f \in PipeTransient(fn) : TRUE

\* Content found at path f: the invocation that wrote it last, or "missing".
ConcOwner(files, f) ==
    IF \E e \in files : e.name = f
    THEN (CHOOSE e \in files : e.name = f).owner
    ELSE "missing"

\* open(path, 'w') and write: the content at the path is replaced.
ConcWrite(p) ==
    /\ prog = "concurrent" /\ conc.ph[p] = "call"
    /\ conc' = [conc EXCEPT
                  !.ph[p] = "written",
                  !.files = {e \in @ : e.name # ConcTransient(conc.fn, p)}
                            \cup {[name |-> ConcTransient(conc.fn, p), owner |-> p]}]

\* subprocess.run starts the tool.
ConcLaunch(p) ==
    /\ prog = "concurrent" /\ conc.ph[p] = "written"
    /\ conc' = [conc EXCEPT !.ph[p] = "running"]

\* The tool opens the script or parset it was given.
ConcToolRead(p) ==
    /\ prog = "concurrent" /\ conc.ph[p] = "running"
    /\ conc' = [conc EXCEPT
                  !.ph[p] = "read",
                  !.saw[p] = ConcOwner(conc.files, ConcTransient(conc.fn, p))]

\* The tool exits; the finally clause unlinks the path (missing_ok=True).
ConcLeave(p) ==
    /\ prog = "concurrent" /\ conc.ph[p] = "read"
    /\ conc' = [conc EXCEPT
                  !.ph[p] = "left",
                  !.files = {e \in @ : e.name # ConcTransient(conc.fn, p)}]

ConcNext ==
    /\ \E p \in Procs : ConcWrite(p) \/ ConcLaunch(p) \/ ConcToolRead(p) \/ ConcLeave(p)
    /\ UNCHANGED <<prog, input, pc, phase, status, failedAt, fs, log, reports, scVars,
                   outVars, paths, mount, returned, rendered, rt>>

\* ======================================================================
\* realtime_quick.py: the processing loop
\* ======================================================================
\* number of loop iterations followed
MaxIterations == 3

\* values uuid4().hex[:10] takes (few, so that a name can repeat)
Uuids == {"u1", "u2"}

\* The first try block of the loop body, statement by statement, for what the
\* environment does: data tells whether get_newest_file returns, cal whether
\* get_caltable_by_freqname returns, u is the uuid drawn, c1 and c2 whether
\* the two copytree calls (and the makedirs calls before them) succeed.
\* os.makedirs(proc_dir) raises FileExistsError when the directory exists.
RtPrep(data, cal, u, c1, c2, dirs) ==
    LET found == data /\ cal
        fresh == found /\ u \notin dirs
    IN  [data     |-> data,
         cal      |-> found,
         proc_dir |-> IF found THEN u ELSE "unbound",
         fresh    |-> fresh,
         copied   |-> IF fresh /\ c1
                      THEN {"caltable"} \cup (IF c2 THEN {"slow"} ELSE {})
                      ELSE {}]

\* Whether the first try block ran to its end.
RtPrepared(prep) == prep.fresh /\ prep.copied = {"caltable", "slow"}

\* Mutant of RtAfterPrepFailure: the handler does not leave the iteration.
RtAfterPrepFailureFallThrough == "fallthrough"

\* The handler of the first try block: print, sleep, continue.
RtAfterPrepFailure == "continue"

\* The handler of the second try block: print, sleep, continue.
RtAfterProcFailure == "continue"

\* Lines 70-93: one pass through the preparation of an iteration.
RtPrepare ==
    /\ prog = "realtime" /\ status = "running"
    /\ rt.at = "prepare" /\ rt.it <= MaxIterations
    /\ \E data \in BOOLEAN, cal \in BOOLEAN, u \in Uuids, c1 \in BOOLEAN, c2 \in BOOLEAN :
          LET prep == RtPrep(data, cal, u, c1, c2, rt.dirs)
              dirs == IF prep.fresh THEN rt.dirs \cup {u} ELSE rt.dirs
          IN  IF RtPrepared(prep)
              THEN rt' = [rt EXCEPT !.at = "process", !.prep = prep, !.dirs = dirs,
                                    !.last = [result |-> "prepared", it |-> rt.it]]
              ELSE IF RtAfterPrepFailure = "continue"
              THEN rt' = [rt EXCEPT !.at = "prepare", !.it = @ + 1, !.prep = prep,
                                    !.dirs = dirs,
                                    !.last = [result |-> "prep_failed", it |-> rt.it]]
              ELSE rt' = [rt EXCEPT !.at = "process", !.prep = prep, !.dirs = dirs,
                                    !.last = [result |-> "prep_failed", it |-> rt.it]]
    /\ UNCHANGED <<prog, input, pc, phase, status, failedAt, fs, log, reports, scVars,
                   outVars, paths, mount, returned, rendered, conc>>

\* Lines 95-127: the container is started on proc_dir; o is its exit, post
\* tells whether finding, plotting and copying the image succeed afterwards.
RtProcess ==
    /\ prog = "realtime" /\ status = "running"
    /\ rt.at = "process" /\ rt.it <= MaxIterations
    /\ \E o \in Outcomes, post \in BOOLEAN :
          LET ok == o = "ok" /\ post
              launched == rt.launched \cup {[it |-> rt.it, prep |-> rt.prep]}
          IN  IF ok \/ RtAfterProcFailure = "continue"
              THEN rt' = [rt EXCEPT !.at = "prepare", !.it = @ + 1,
                                    !.launched = launched,
                                    !.last = [result |-> IF ok THEN "processed"
                                                         ELSE "proc_failed",
                                              it |-> rt.it]]
              ELSE /\ rt' = [rt EXCEPT !.at = "stopped", !.launched = launched,
                                       !.last = [result |-> "proc_failed", it |-> rt.it]]
    /\ status' = IF rt'.at = "stopped" THEN "exit1" ELSE status
    /\ UNCHANGED <<prog, input, pc, phase, failedAt, fs, log, reports, scVars,
                   outVars, paths, mount, returned, rendered, conc>>

RtNext == RtPrepare \/ RtProcess

\* ======================================================================
\* realtime_quick.py: get_newest_file
\* ======================================================================
\* characters of the names tried, in code point order
Alphabet == <<"a", "b">>

Ord(c) == CHOOSE i \in 1..Len(Alphabet) : Alphabet[i] = c

\* s < t for two str values: the first differing character decides, a proper
\* prefix is smaller.
RECURSIVE LexLess(_, _)
LexLess(s, t) ==
    IF t = << >> THEN FALSE
    ELSE IF s = << >> THEN TRUE
    ELSE IF Head(s) = Head(t) THEN LexLess(Tail(s), Tail(t))
    ELSE Ord(Head(s)) < Ord(Head(t))

\* sorted(names)[-1] of a non-empty listing
SortedLast(names) == CHOOSE n \in names : \A m \in names : m = n \/ LexLess(m, n)

\* The entry of a listing that has the given name.
EntryNamed(listing, n) == CHOOSE e \in listing : e.name = n

\* names of the entries for which os.path.isdir holds
DirNamesOf(listing) == {e.name : e \in {x \in listing : x.kind = "dir"}}

ValueError(msg) == [kind |-> "ValueError", value |-> <<msg>>]

\* Mutant of GetNewestFile: a newest date without hour directories makes the
\* function look into the date before it.
GetNewestFileFallBack(listing) ==
    LET date_dirs == DirNamesOf(listing)
        usable    == {d \in date_dirs : DirNamesOf(EntryNamed(listing, d).kids) # {}}
    IN  IF date_dirs = {} THEN ValueError("No date directories found")
        ELSE IF usable = {} THEN ValueError("No hour directories found")
        ELSE
        LET newest_date == SortedLast(usable)
            date_path   == EntryNamed(listing, newest_date).kids
            hour        == SortedLast(DirNamesOf(date_path))
            files       == {e.name : e \in EntryNamed(date_path, hour).kids}
        IN  IF files = {} THEN ValueError("No files found")
            ELSE [kind |-> "value", value |-> <<newest_date, hour, SortedLast(files)>>]

\* get_newest_file(data_dir) for the listing of data_dir: the path of the
\* file found, relative to data_dir, or the ValueError raised.
GetNewestFile(listing) ==
    LET date_dirs == DirNamesOf(listing)
    IN  IF date_dirs = {} THEN ValueError("No date directories found")
        ELSE
        LET newest_date == SortedLast(date_dirs)
            date_path   == EntryNamed(listing, newest_date).kids
            hour_dirs   == DirNamesOf(date_path)
        IN  IF hour_dirs = {} THEN ValueError("No hour directories found")
            ELSE
            LET hour  == SortedLast(hour_dirs)
                files == {e.name : e \in EntryNamed(date_path, hour).kids}
            IN  IF files = {} THEN ValueError("No files found")
                ELSE [kind |-> "value", value |-> <<newest_date, hour, SortedLast(files)>>]

\* The call get_newest_file(config.data_root) on the tree given as input.
NewestCall ==
    /\ prog = "newest" /\ pc = "main"
    /\ returned' = GetNewestFile(input.tree)
    /\ pc' = "done"
    /\ UNCHANGED <<prog, input, phase, status, failedAt, fs, log, reports, scVars,
                   outVars, paths, mount, rendered, conc, rt>>

NewestNext == NewestCall

\* ======================================================================
\* dev_src/uvh5_to_ms.py and dev_src/ms_preproc_uvh5.py
\* ======================================================================
ConvTools == {"uvh5_to_ms", "ms_preproc_uvh5"}

\* the input file or directory named on the command line
conv_input == File("data", "input", 0)

\* The output path: k = 0 is what was there before the run, k = 1 what the
\* conversion writes.
ConvOutput(k) == File("data", "output", k)

\* Extension main() requires of the input.
ConvSuffix(tool) == IF tool = "uvh5_to_ms" THEN ".uvh5" ELSE ".ms"

\* How main() removes an existing output under --force: shutil.rmtree for a
\* measurement set, unlink for a uvh5 file; each raises on the other kind.
ConvRemoval(tool) == IF tool = "uvh5_to_ms" THEN "rmtree" ELSE "unlink"

ConvRemovalRaises(tool, kind) ==
    \/ ConvRemoval(tool) = "rmtree" /\ kind # "dir"
    \/ ConvRemoval(tool) = "unlink" /\ kind # "file"

\* Mutant of ConvRefuses: an existing output never stops the run.
ConvRefusesNever(force, exists) == FALSE

\* "if not args.force: if output.exists(): ... sys.exit(1)"
ConvRefuses(force, exists) == ~force /\ exists

\* main() up to the call of the conversion: input checks, then the check for
\* an existing output, then its removal under --force.
ConvMain ==
    /\ prog = "convert" /\ status = "running" /\ pc = "main"
    /\ LET exists == ConvOutput(0) \in fs
       IN  IF \/ conv_input \notin fs
              \/ input.suffix # ConvSuffix(input.tool)
              \/ ConvRefuses(input.force, exists)
           THEN status' = "exit1" /\ UNCHANGED <<pc, fs, raised>>
           ELSE IF input.force /\ exists
           THEN IF ConvRemovalRaises(input.tool, input.out_kind)
                THEN status' = "exit1" /\ raised' = "OSError" /\ UNCHANGED <<pc, fs>>
                ELSE /\ fs' = fs \ {ConvOutput(0)}
                     /\ pc' = "convert"
                     /\ UNCHANGED <<status, raised>>
           ELSE pc' = "convert" /\ UNCHANGED <<status, fs, raised>>
    /\ UNCHANGED <<prog, input, phase, failedAt, log, reports, scVars, printed, mntVars>>

\* The conversion call inside try/except Exception: it writes the output, or
\* raises and main() exits with 1.
ConvConvert ==
    /\ prog = "convert" /\ status = "running" /\ pc = "convert"
    /\ \E o \in {"ok", "raise"} :
        /\ log' = Append(log, Entry(input.tool, "library", 0, {conv_input},
                                    {ConvOutput(1)}, {}, o))
        /\ fs' = IF o = "ok" THEN (fs \ {ConvOutput(0)}) \cup {ConvOutput(1)} ELSE fs
        /\ status' = IF o = "ok" THEN "exit0" ELSE "exit1"
    /\ pc' = "done"
    /\ UNCHANGED <<prog, input, phase, failedAt, reports, scVars, outVars, mntVars>>

ConvNext == ConvMain \/ ConvConvert

\* ======================================================================
\* initial states
\* ======================================================================
NoInput == [argc |-> 0, cfgIter |-> 0, argIter |-> None]

NoPaths == [fn |-> "none", ps |-> << >>]

NoMount == [root |-> << >>, error |-> "none", rels |-> << >>]

NoRendered == << >>

NoConc == [on |-> FALSE]

NoRt == [on |-> FALSE]

PipeInit ==
    /\ prog = "pipeline"
    /\ \E argc \in 1..MaxArgc : input = [NoInput EXCEPT !.argc = argc]
    /\ fs \in SUBSET {raw_ms, gaintable}

ScInit ==
    /\ prog = "selfcal"
    /\ \E c \in 0..MaxRounds, a \in {None} \cup 0..MaxRounds :
          input = [NoInput EXCEPT !.cfgIter = c, !.argIter = a]
    /\ fs \in SUBSET {ms_path, config_file}

FaInit ==
    /\ prog = "flagavg"
    /\ \E argc \in 1..MaxArgc : input = [NoInput EXCEPT !.argc = argc]
    /\ fs \in SUBSET {fa_input_ms}

SubInit ==
    /\ prog = "subtract"
    /\ \E argc \in 1..MaxArgc : input = [NoInput EXCEPT !.argc = argc]
    /\ fs \in SUBSET {sub_ms_file, sub_source_file}

\* The stage function is entered with existing, resolved paths: input and
\* output for the phase shift, three paths for the subtraction.
MountInit ==
    /\ prog = "mount"
    /\ input = NoInput
    /\ fs = {}
    /\ \E fn \in MountFns :
          IF fn \in {"phaseshift_to_sun.phaseshift_to_sun", "pipeline.phaseshift_to_sun"}
          THEN \E ms \in PathsUpTo(Names, MaxDepth), out \in PathsUpTo(Names, MaxDepth) :
                   paths = [fn |-> fn, ps |-> <<ms, out>>]
          ELSE \E p1 \in PathsUpTo(ShortNames, MaxDepth),
                  p2 \in PathsUpTo(ShortNames, MaxDepth),
                  p3 \in PathsUpTo(ShortNames, MaxDepth) :
                   paths = [fn |-> fn, ps |-> <<p1, p2, p3>>]

GcInit ==
    /\ prog = "gaincal"
    /\ \E argc \in 1..MaxArgc : input = [NoInput EXCEPT !.argc = argc]
    /\ fs \in SUBSET {gc_input_ms}
    /\ paths = NoPaths /\ rendered = NoRendered /\ conc = NoConc /\ rt = NoRt

RenderInit ==
    /\ prog = "render"
    /\ input = NoInput
    /\ fs = {}
    /\ paths = NoPaths /\ rendered = NoRendered /\ conc = NoConc /\ rt = NoRt

ConcInit ==
    /\ prog = "concurrent"
    /\ input = NoInput
    /\ fs = {}
    /\ \E fn \in ConcFns :
          conc = [on |-> TRUE, fn |-> fn, ph |-> [p \in Procs |-> "call"],
                  saw |-> [p \in Procs |-> "none"], files |-> {}]
    /\ paths = NoPaths /\ rendered = NoRendered /\ rt = NoRt

RtInit ==
    /\ prog = "realtime"
    /\ input = NoInput
    /\ fs = {}
    /\ rt = [on |-> TRUE, at |-> "prepare", it |-> 1, dirs |-> {}, launched |-> {},
             prep |-> RtPrep(FALSE, FALSE, "u1", FALSE, FALSE, {}),
             last |-> [result |-> "none", it |-> 0]]
    /\ paths = NoPaths /\ rendered = NoRendered /\ conc = NoConc

\* What a name in a directory can be: absent, a plain file, or a directory
\* with one of the given contents.
Options(contents) ==
    {[kind |-> "absent", kids |-> {}], [kind |-> "file", kids |-> {}]}
    \cup {[kind |-> "dir", kids |-> c] : c \in contents}

Listing(f) ==
    {[name |-> n, kind |-> f[n].kind, kids |-> f[n].kids] :
        n \in {m \in DOMAIN f : f[m].kind # "absent"}}

\* hour directories hold files named "a" and "ab"; date directories and the
\* data root hold entries named "a" and "b"
HourListings ==
    {{[name |-> n, kind |-> "file", kids |-> {}] : n \in S} :
        S \in SUBSET {<<"a">>, <<"a", "b">>}}

DateListings == {Listing(f) : f \in [ShortNames -> Options(HourListings)]}

Trees == {Listing(f) : f \in [ShortNames -> Options(DateListings)]}

NewestInit ==
    /\ prog = "newest"
    /\ \E t \in Trees : input = [argc |-> 0, cfgIter |-> 0, argIter |-> None, tree |-> t]
    /\ fs = {}
    /\ paths = NoPaths /\ rendered = NoRendered /\ conc = NoConc /\ rt = NoRt

ConvInit ==
    /\ prog = "convert"
    /\ \E tool \in ConvTools, force \in BOOLEAN, suffix \in {".uvh5", ".ms"},
          in_exists \in BOOLEAN, out_exists \in BOOLEAN, out_kind \in {"dir", "file"} :
          /\ input = [argc |-> 0, cfgIter |-> 0, argIter |-> None,
                      tool |-> tool, force |-> force, suffix |-> suffix,
                      in_exists |-> in_exists, out_exists |-> out_exists,
                      out_kind |-> out_kind]
          /\ fs = (IF in_exists THEN {conv_input} ELSE {})
                  \cup (IF out_exists THEN {ConvOutput(0)} ELSE {})
    /\ paths = NoPaths /\ rendered = NoRendered /\ conc = NoConc /\ rt = NoRt

\* The entry points whose runs are sequences of tool calls, and the stage
\* functions entered with given paths.
ToolRunInit ==
    /\ \/ (PipeInit \/ ScInit \/ FaInit \/ SubInit) /\ paths = NoPaths
       \/ MountInit
    /\ rendered = NoRendered
    /\ conc = NoConc
    /\ rt = NoRt

Init ==
    /\ \/ ToolRunInit
       \/ GcInit
       \/ RenderInit
       \/ ConcInit
       \/ RtInit
       \/ NewestInit
       \/ ConvInit
    /\ pc = "main"
    /\ phase = "none"
    /\ status = "running"
    /\ failedAt = "none"
    /\ log = << >>
    /\ reports = << >>
    /\ selfcal_iterations = 0
    /\ iteration = 0
    /\ current_ms = NoFile
    /\ printed = << >>
    /\ raised = "none"
    /\ mount = NoMount
    /\ returned = NoReturn

Next == PipeNext \/ ScNext \/ FaNext \/ SubNext \/ MountNext
        \/ GcNext
        \/ RenderNext
        \/ ConcNext
        \/ RtNext
        \/ NewestNext
        \/ ConvNext

Spec == Init /\ [][Next]_vars

\* Every tool call that terminates does so; each step of the single-threaded
\* program is eventually taken.
FairSpec == Spec /\ WF_vars(Next)

\* ======================================================================
\* properties
\* ======================================================================
IsCalibration(e) == e.stage \in {"calibrate", "gaincal"}

IsApply(e) == e.stage \in {"calibrate", "applycal"}

IsImaging(e) == e.tool = "wsclean" /\ e.stage # "test_wsclean"

IsRoundCalibration(e) == e.stage = "calibrate"

\* The transient scripts and parsets of the stage functions of
\* pipeline_quick_proc_img.
PipelineTransientFiles ==
    {File("cwd", "casa_applycal.py", 0), File("data", "dp3_flag_avg.parset", 0),
     File("data", "gaincal.parset", 0), File("data", "applycal.parset", 0),
     File("data", "subtract.parset", 0), File("data", "phaseshift_to_sun.parset", 0)}

\* Names of the parsets of run_dp3_calibration and of the standalone stages.
StandaloneParsetNames ==
    {"cal_iter_.parset", "dp3_flag_avg.parset", "tmp.parset", "subtract_sources.parset"}

\* The stage order of the claim, followed by the diagnostics run_pipeline adds.
FixedOrder ==
    <<"casa_applycal", "dp3_flag_avg", "selfcal_image", "gaincal", "applycal",
      "source_image", "mask_sources", "subtract", "phaseshift", "final_image">>

Diagnostics == <<"debug_image", "plots">>

\* C1: in run_pipeline and run_selfcal_pipeline a tool that exited nonzero is
\* the last call the run ever made, and the run has failed (nonzero exit).
C1_FailFast ==
    prog \in {"pipeline", "selfcal"} =>
        \A i \in 1..Len(log) :
            log[i].exit = "nonzero" => (i = Len(log) /\ status = "exit1")

C1_Witness ==
    /\ prog = "pipeline" /\ status = "exit1"
    /\ Len(log) = 4 /\ log[4].stage = "gaincal" /\ log[4].exit = "nonzero"

\* C2: whenever a stage failed and the process exits nonzero, a run report
\* with status "failed" naming the failing stage has been written.
C2_FailedRunReported ==
    (prog \in {"pipeline", "selfcal"} /\ status = "exit1" /\ failedAt # "none") =>
        \E i \in 1..Len(reports) :
            /\ reports[i].status = "failed"
            /\ "failed_stage" \in DOMAIN reports[i]
            /\ reports[i].failed_stage = failedAt

\* C3: run_pipeline starts its stages in the fixed order, each one only after
\* all stages before it finished successfully, none twice; only the
\* diagnostics (DEBUG imaging, plots) follow the final image.
C3_FixedStageOrder ==
    prog = "pipeline" =>
        LET full == FixedOrder \o Diagnostics IN
        /\ Len(log) <= Len(full)
        /\ \A i \in 1..Len(log) : log[i].stage = full[i]
        /\ \A i \in 2..Len(log) : log[i - 1].exit = "ok"
        /\ (status = "running" /\ phase \in {"call", "written"}) =>
               /\ pc = full[Len(log) + 1]
               /\ \A i \in 1..Len(log) : log[i].exit = "ok"
        /\ (status = "running" /\ phase = "running") => pc = full[Len(log)]

C3_Witness ==
    /\ prog = "pipeline" /\ status = "exit0"
    /\ Len(log) = 12 /\ log[10].stage = "final_image"

\* C4: a successful self-calibration run with N > 0 rounds leaves exactly N new
\* measurement sets, round k writing the one with suffix _iter_k and reading
\* the output of round k-1 (round 1 reads the supplied measurement set).
C4_RoundArtifacts ==
    (prog = "selfcal" /\ status = "exit0" /\ selfcal_iterations > 0) =>
        LET cal == SelectSeq(log, IsRoundCalibration) IN
        /\ Len(cal) = selfcal_iterations
        /\ \A k \in 1..Len(cal) :
            /\ cal[k].writes = {File("data", "ms_cal_iter_", k)}
            /\ cal[k].writes \subseteq fs
            /\ cal[k].reads = IF k = 1 THEN {File("data", "ms.ms", 0)}
                              ELSE cal[k - 1].writes
        /\ Cardinality({f \in fs : f.dir = "data" /\ f # File("data", "ms.ms", 0)})
               = selfcal_iterations

C4_Witness ==
    /\ prog = "selfcal" /\ status = "exit0" /\ selfcal_iterations = 3
    /\ File("data", "ms_cal_iter_", 3) \in fs

\* C5: with zero rounds no tool is started on the input measurement set and
\* no new measurement set is created.
C5_ZeroRoundsPassThrough ==
    (prog = "selfcal" /\ pc # "main" /\ selfcal_iterations = 0) =>
        /\ \A i \in 1..Len(log) : log[i].exit # "oserror" =>
               File("data", "ms.ms", 0) \notin (log[i].reads \cup log[i].writes)
        /\ {f \in fs : f.dir = "data"} = {File("data", "ms.ms", 0)}

\* C6: in every round the input is imaged before it is calibrated (with no
\* other calibration in between), the measurement set with the solution
\* applied is written by or after that calibration, and it is what the next
\* round calibrates.
C6_RoundStateOrder ==
    prog \in {"pipeline", "selfcal"} =>
        /\ \A i \in 1..Len(log) : IsCalibration(log[i]) =>
               \E j \in 1..(i - 1) :
                   /\ IsImaging(log[j]) /\ log[j].exit = "ok"
                   /\ log[i].reads = log[j].reads
                   /\ \A m \in (j + 1)..(i - 1) : ~IsCalibration(log[m])
        /\ \A i \in 1..Len(log) : IsApply(log[i]) =>
               \E j \in 1..i :
                   /\ IsCalibration(log[j])
                   /\ log[j].reads \subseteq log[i].reads
                   /\ j < i => log[j].exit = "ok"
        /\ \A i \in 1..Len(log) : \A n \in (i + 1)..Len(log) :
               (/\ IsApply(log[i]) /\ IsCalibration(log[n])
                /\ \A m \in (i + 1)..(n - 1) : ~IsCalibration(log[m]))
               => log[n].reads \subseteq log[i].writes

C6_Witness ==
    /\ prog = "selfcal" /\ status = "exit0"
    /\ Len(SelectSeq(log, IsRoundCalibration)) = 2

\* C7: a self-calibration run whose tool calls all succeed (and which is not
\* cancelled) eventually ends in Done after exactly N rounds, holding the
\* output of round N.
C7_LoopTerminates ==
    (prog = "selfcal" /\ {File("data", "ms.ms", 0), config_file} \subseteq fs) =>
        <>(\/ status = "killed"
           \/ \E i \in 1..Len(log) : log[i].exit \notin {"ok", "pending"}
           \/ /\ status = "exit0" /\ pc = "done"
              /\ Len(SelectSeq(log, IsRoundCalibration)) = selfcal_iterations
              /\ iteration = selfcal_iterations
              /\ current_ms = IF selfcal_iterations = 0 THEN File("data", "ms.ms", 0)
                              ELSE File("data", "ms_cal_iter_", selfcal_iterations))

C7_Witness ==
    /\ prog = "selfcal" /\ status = "exit0" /\ pc = "done"
    /\ selfcal_iterations = 2 /\ iteration = 2
    /\ current_ms = File("data", "ms_cal_iter_", 2)

\* C8: whenever a stage function of pipeline_quick_proc_img has been left
\* (normally, through sys.exit(1) or through another exception), none of the
\* transient scripts and parsets exists.
C8_TransientRemovedOnExit ==
    (prog = "pipeline" /\ status # "killed" /\ phase \in {"call", "none"}) =>
        fs \cap PipelineTransientFiles = {}

C8_Witness ==
    /\ prog = "pipeline" /\ status = "exit1" /\ failedAt = "subtract"
    /\ log[Len(log)].exit = "nonzero"
    /\ log[Len(log)].parset = {File("data", "subtract.parset", 0)}
    /\ File("data", "subtract.parset", 0) \notin fs

\* C9: after run_dp3_calibration or a standalone stage has returned or
\* failed, no parset it wrote remains on disk.
C9_ParsetRemovedOnExit ==
    (/\ prog \in {"selfcal", "flagavg", "subtract"}
     /\ status # "killed" /\ phase \in {"call", "none"}) =>
        {f \in fs : f.base \in StandaloneParsetNames} = {}

\* C10: in every terminal state of the orchestrator reached through
\* cancellation no transient script or parset remains.
C10_CancelCleansUp ==
    (/\ prog = "pipeline" /\ status # "running"
     /\ \/ status = "killed"
        \/ (Len(log) > 0 /\ log[Len(log)].exit = "sigint")) =>
        fs \cap PipelineTransientFiles = {}

\* C11: the orchestrator (pipeline_quick_proc_img main, selfcal_pipeline main)
\* has exit code 0 only when every call it made completed successfully and
\* the whole sequence was run: all stages of run_pipeline including the DEBUG
\* imaging and the plots that follow the success banner, or all N rounds of
\* the self-calibration and its report.
C11_ExitZeroOnlyOnCompletion ==
    (prog \in {"pipeline", "selfcal"} /\ status = "exit0") =>
        /\ \A i \in 1..Len(log) : log[i].exit = "ok"
        /\ prog = "pipeline" =>
               [i \in 1..Len(log) |-> log[i].stage] = FixedOrder \o Diagnostics
        /\ prog = "selfcal" =>
               /\ Len(SelectSeq(log, IsRoundCalibration)) = selfcal_iterations
               /\ Len(SelectSeq(log, IsImaging)) = selfcal_iterations + 1
               /\ Len(reports) = 1

C11_Witness ==
    /\ prog = "pipeline" /\ status = "exit0"
    /\ log[11].stage = "debug_image" /\ log[11].exit = "ok"
    /\ log[12].stage = "plots" /\ log[12].exit = "ok"

\* C12: when the tool of a stage of run_pipeline exited nonzero, a message
\* naming the failing stage function, with the elapsed time and with the
\* tool's error output (printed by the handler, or at least written to the
\* terminal by the tool itself) has been printed before the nonzero exit.
C12_FailureMessageComplete ==
    (/\ prog = "pipeline" /\ status = "exit1"
     /\ Len(log) > 0 /\ log[Len(log)].exit = "nonzero") =>
        \E i \in 1..Len(printed) :
            /\ printed[i].fn = PipeFn(log[Len(log)].stage)
            /\ printed[i].elapsed
            /\ printed[i].stderr \in {"printed", "inherited"}

\* C13: when main() of pipeline_quick_proc_img finds fewer than two positional
\* arguments, no raw measurement set or no gain table, the run never leaves
\* main: it ends with a nonzero exit code, no transient file is written and
\* no tool is launched.
C13_PreconditionFailureExits ==
    (/\ prog = "pipeline"
     /\ \/ input.argc < 3
        \/ File("data", "raw.ms", 0) \notin fs
        \/ File("caltables", "gaintable.bcal", 0) \notin fs) =>
        /\ pc = "main" /\ status \in {"running", "exit1"}
        /\ log = << >> /\ printed = << >>
        /\ fs \cap PipelineTransientFiles = {}

C13_Witness ==
    /\ prog = "pipeline" /\ status = "exit1" /\ pc = "main"
    /\ input.argc = 3
    /\ File("data", "raw.ms", 0) \in fs
    /\ File("caltables", "gaintable.bcal", 0) \notin fs

\* The common ancestor directories of a sequence of paths: the proper
\* prefixes shared by all of them.
CommonAncestors(ps) ==
    {r \in {SubSeq(ps[1], 1, k) : k \in 0..(Len(ps[1]) - 1)} :
        \A i \in DOMAIN ps : Len(r) < Len(ps[i]) /\ SubSeq(ps[i], 1, Len(r)) = r}

\* C14: the mount root a stage derives from its host paths (none of which
\* lies inside another) is their deepest common ancestor directory, and every
\* translated path is the non-empty remainder of its host path below that
\* root.
C14_MountIsDeepestCommonAncestor ==
    (/\ prog = "mount" /\ pc # "main"
     /\ \A i, j \in DOMAIN paths.ps :
            (i # j /\ Len(paths.ps[i]) <= Len(paths.ps[j])) =>
                SubSeq(paths.ps[j], 1, Len(paths.ps[i])) # paths.ps[i]) =>
        /\ mount.root \in CommonAncestors(paths.ps)
        /\ \A r \in CommonAncestors(paths.ps) : Len(r) <= Len(mount.root)
        /\ \A i \in DOMAIN paths.ps :
               mount.rels[i] # << >> /\ mount.root \o mount.rels[i] = paths.ps[i]

\* C15: every container call of run_pipeline and run_selfcal_pipeline has one
\* bind mount, and every path it is given is a container path below the mount
\* point of the host directory that holds the file.
C15_PathsUnderSingleMount ==
    prog \in {"pipeline", "selfcal"} =>
        \A i \in 1..Len(log) :
            LET e    == log[i]
                vols == IF prog = "pipeline" THEN PipeVolumes(PipeFn(e.stage))
                        ELSE ScVolumes(e.stage)
                args == IF prog = "pipeline" THEN PipeCmdPaths(e.stage)
                        ELSE ScCmdPaths(e.stage, e.k, e.reads)
            IN  (e.exit # "oserror" /\ vols # {}) =>
                    /\ Cardinality(vols) = 1
                    /\ \A a \in args :
                           /\ a.space = "container"
                           /\ \E v \in vols : v.point = a.point /\ v.host = a.file.dir

C17_LinearChain ==
    prog = "pipeline" =>
        \A i \in 2..Len(log) : log[i].reads \subseteq log[i - 1].writes

\* C17 (amended): every stage of run_pipeline reads only the inputs of the run
\* or artifacts written by an earlier stage that completed successfully; an
\* artifact may be read by several later stages.
C17_InputsProducedEarlier ==
    prog = "pipeline" =>
        \A i \in 1..Len(log) : \A f \in log[i].reads :
            \/ f \in {File("data", "raw.ms", 0), File("caltables", "gaintable.bcal", 0)}
            \/ \E j \in 1..(i - 1) : f \in log[j].writes /\ log[j].exit = "ok"

C17_Witness ==
    /\ prog = "pipeline" /\ Len(log) >= 11
    /\ log[9].stage = "phaseshift" /\ log[11].stage = "debug_image"
    /\ log[9].reads = log[11].reads
    /\ log[11].exit = "ok"

\* C18 (as stated): no path is written by two stages of one run, the solution
\* table excepted.
C18_WriteOnce ==
    prog = "pipeline" =>
        \A i \in 1..Len(log) : \A j \in (i + 1)..Len(log) :
            log[i].writes \cap log[j].writes \subseteq {File("data", "solution.h5", 0)}

\* C18 (amended): a stage of run_pipeline writes either a path no earlier
\* stage has read or written, or its own input, which it updates in place.
C18_FreshOutputPaths ==
    prog = "pipeline" =>
        \A i \in 1..Len(log) : \A j \in (i + 1)..Len(log) :
            (log[j].writes \ log[j].reads) \cap (log[i].writes \cup log[i].reads) = {}

C18_Witness ==
    /\ prog = "pipeline" /\ Len(log) >= 3
    /\ log[2].stage = "dp3_flag_avg" /\ log[3].stage = "selfcal_image"
    /\ log[3].exit = "ok"
    /\ File("data", "raw_flagged_avg.ms", 0) \in log[2].writes \cap log[3].writes

\* C19: when a tool run through run_linc_command exited nonzero, the runner
\* returned a result to the calling stage and raised no exception.
C19_RunnerReturnsFailure ==
    (/\ prog = "selfcal" /\ Len(log) > 0
     /\ log[Len(log)].stage
            \in {"test_dp3", "test_wsclean", "initial_image", "calibrate", "image"}
     /\ log[Len(log)].exit = "nonzero") =>
        raised = "none"

\* C20: within one run of run_pipeline or run_selfcal_pipeline no stage
\* invocation launches its tool a second time, whether or not the first
\* launch failed.
C20_NoRetry ==
    prog \in {"pipeline", "selfcal"} =>
        \A i \in 1..Len(log) : \A j \in (i + 1)..Len(log) :
            log[i].stage # log[j].stage \/ log[i].k # log[j].k

C20_Witness ==
    /\ prog = "pipeline" /\ status = "exit1" /\ failedAt = "dp3_flag_avg"
    /\ Len(log) = 2 /\ log[2].exit = "nonzero"
    /\ Len(SelectSeq(log, LAMBDA e : e.stage = "dp3_flag_avg")) = 1

\* ---------------------------------------------------------------- C25
\* C25: when DP3 exits with 0, phaseshift_to_sun returns the path of the
\* output measurement set, in the standalone module and in the pipeline's
\* copy alike.
C25_ReturnsOutputPath ==
    (/\ prog = "mount"
     /\ paths.fn \in {"phaseshift_to_sun.phaseshift_to_sun", "pipeline.phaseshift_to_sun"}
     /\ status = "exit0")
    => returned = [kind |-> "value", value |-> paths.ps[2]]

\* ---------------------------------------------------------------- C26
\* C26: every gain-calibration launch of run_selfcal_pipeline (every round,
\* the first included) and of run_pipeline directly follows, with no other
\* launch in between, a completed imaging launch on the very measurement
\* set the calibration reads.
C26_CalibrationFollowsImaging ==
    prog \in {"pipeline", "selfcal"} =>
        \A i \in 1..Len(log) :
            log[i].stage \in {"gaincal", "calibrate"} =>
                /\ i > 1
                /\ log[i - 1].tool = "wsclean"
                /\ log[i - 1].stage \in {"selfcal_image", "initial_image", "image"}
                /\ log[i - 1].exit = "ok"
                /\ Cardinality(log[i].reads) = 1
                /\ log[i - 1].reads = log[i].reads

C26_Witness ==
    /\ prog = "selfcal"
    /\ \E i \in 2..Len(log) :
          /\ log[i].stage = "calibrate" /\ log[i].k = 2 /\ log[i].exit = "ok"
          /\ log[i - 1].stage = "image"
          /\ log[i].reads = {File("data", "ms_cal_iter_", 1)}

\* ---------------------------------------------------------------- C23
\* C23: the run report of the self-calibration pipeline is written at most
\* once per run and only after the last executed stage has finished; the
\* round count it records is the count the loop used, which is the value of
\* --iterations when that option was given and the configured value otherwise.
C23_ReportWriteOnce ==
    prog = "selfcal" =>
        /\ Len(reports) <= 1
        /\ (report_file \in fs) = (Len(reports) = 1)
        /\ Len(reports) = 1 =>
              /\ status = "exit0"
              /\ log # << >>
              /\ \A i \in 1..Len(log) : log[i].exit = "ok"
              /\ log[Len(log)].stage \in {"initial_image", "image"}
              /\ reports[1].selfcal_iterations =
                     (IF input.argIter # -1 THEN input.argIter ELSE input.cfgIter)
              /\ reports[1].selfcal_iterations =
                     Cardinality({i \in 1..Len(log) : log[i].stage = "calibrate"})

C23_Witness ==
    /\ prog = "selfcal"
    /\ Len(reports) = 1
    /\ input.cfgIter = 3 /\ input.argIter = 2
    /\ reports[1].selfcal_iterations = 2
    /\ Cardinality({i \in 1..Len(log) : log[i].stage = "calibrate"}) = 2

\* ---------------------------------------------------------------- C22
\* C22: when podman cannot be launched for a tool call, the run ends with a
\* nonzero exit code, no later call is started, and the transient parset or
\* script written for that call no longer exists.
C22_RuntimeUnavailable ==
    (/\ prog \in {"pipeline", "selfcal"}
     /\ \E i \in 1..Len(log) : log[i].exit = "oserror") =>
        /\ status = "exit1"
        /\ \A i \in 1..Len(log) : log[i].exit = "oserror" => i = Len(log)
        /\ log[Len(log)].parset \cap fs = {}

\* ---------------------------------------------------------------- C21
\* C21: when DP3 exits with 0 but the output measurement set is absent, the
\* stage is treated as failed: the run ends with a nonzero exit code and the
\* stage is never reported as completed.
C21_MissingOutputIsFailure ==
    (/\ prog = "gaincal" /\ phase = "none"
     /\ log # << >> /\ log[Len(log)].exit = "ok"
     /\ File("data", "input_cal.ms", 0) \notin fs) =>
        /\ status = "exit1"
        /\ \A i \in 1..Len(printed) : printed[i].kind # "completed"

C27_TransientScopedToInvocation ==
    conc.on => \A p \in {"A", "B"} : conc.saw[p] \in {"none", p}

\* ---------------------------------------------------------------- C28
\* C28: in the loop of realtime_quick the container is started in an
\* iteration only when that iteration's preparation succeeded completely
\* (newest data file and calibration table found, a processing directory
\* created that did not exist before, both inputs copied into it), and a
\* failure of the preparation or of the processing never ends the loop: the
\* next iteration follows.
C28_LoopSurvivesFailures ==
    rt.on =>
        /\ \A l \in rt.launched :
              /\ l.prep.data /\ l.prep.cal /\ l.prep.fresh
              /\ l.prep.proc_dir \in {"u1", "u2"}
              /\ l.prep.copied = {"caltable", "slow"}
        /\ status = "running"
        /\ rt.last.result \in {"prep_failed", "proc_failed"} =>
              rt.at = "prepare" /\ rt.it = rt.last.it + 1

C28_Witness ==
    /\ rt.on
    /\ rt.last = [result |-> "proc_failed", it |-> 2]
    /\ rt.it = 3 /\ rt.at = "prepare"
    /\ \E l \in rt.launched : l.it = 2
    /\ ~ \E l \in rt.launched : l.it = 1

\* ---------------------------------------------------------------- C29
\* C29: get_newest_file returns the last entry, in sorted order, of the last
\* hour directory of the last date directory; it raises ValueError when there
\* is no date directory, when the last date directory has no hour directory,
\* or when the last hour directory is empty, and never falls back to an
\* earlier date or hour.  Names are ordered "a" < "ab" < "b".
C29_NewestFile ==
    (prog = "newest" /\ pc = "done") =>
        LET rank(n)  == CASE n = <<"a">> -> 1 [] n = <<"a", "b">> -> 2 [] n = <<"b">> -> 3
            last(es) == CHOOSE e \in es : \A x \in es : rank(x.name) <= rank(e.name)
            dates    == {e \in input.tree : e.kind = "dir"}
        IN  IF dates = {} THEN returned.kind = "ValueError"
            ELSE LET hours == {e \in last(dates).kids : e.kind = "dir"}
                 IN  IF hours = {} THEN returned.kind = "ValueError"
                     ELSE IF last(hours).kids = {} THEN returned.kind = "ValueError"
                     ELSE returned = [kind |-> "value",
                                      value |-> <<last(dates).name, last(hours).name,
                                                  last(last(hours).kids).name>>]

C29_Witness ==
    /\ prog = "newest" /\ pc = "done"
    /\ \E a \in input.tree : a.name = <<"a">> /\ a.kind = "dir"
          /\ \E h \in a.kids : h.kind = "dir" /\ h.kids # {}
    /\ \E b \in input.tree : b.name = <<"b">> /\ b.kind = "dir"
          /\ b.kids = {[name |-> <<"a">>, kind |-> "file", kids |-> {}]}
    /\ returned = [kind |-> "ValueError", value |-> <<"No hour directories found">>]

\* ---------------------------------------------------------------- C30
\* C30: uvh5_to_ms and ms_preproc_uvh5 started without --force on an
\* existing output end with a nonzero exit code and neither delete nor
\* overwrite the output nor convert anything; an existing output is removed
\* only under --force and only when the input exists and has the required
\* extension.
C30_NoClobberWithoutForce ==
    prog = "convert" =>
        /\ (~input.force /\ input.out_exists) =>
              /\ status \in {"running", "exit1"}
              /\ pc = "main"
              /\ File("data", "output", 0) \in fs
              /\ File("data", "output", 1) \notin fs
              /\ log = << >>
        /\ (input.out_exists /\ File("data", "output", 0) \notin fs) =>
              /\ input.force
              /\ input.in_exists
              /\ input.suffix = (IF input.tool = "uvh5_to_ms" THEN ".uvh5" ELSE ".ms")

C30_Witness ==
    /\ prog = "convert"
    /\ ~input.force /\ input.out_exists /\ input.in_exists
    /\ input.tool = "ms_preproc_uvh5" /\ input.suffix = ".ms"
    /\ status = "exit1"
    /\ File("data", "output", 0) \in fs

====
